---- MODULE Spec2Model ----
(***************************************************************************)
(* A model of lamifong/life: the coloured Game of Life engine of           *)
(* src/src/game.js (Coordinates, Cell, Grid).                              *)
(*                                                                         *)
(* Representation of JavaScript values:                                    *)
(*   - a number handed in by a caller is a record [integer, n]: integer    *)
(*     is what Number.isInteger answers for it and n its value (integral   *)
(*     part for a fraction, 0 for NaN).  Once a constructor's assertions   *)
(*     passed, the number is kept as the plain integer n;                  *)
(*   - a string is a sequence of one-character strings;                    *)
(*   - null is the empty tuple;                                            *)
(*   - a failed assert() is a call that reports threw = TRUE and leaves    *)
(*     every object as it was before the call.                             *)
(***************************************************************************)
EXTENDS Integers, Sequences, FiniteSets, TLC

VARIABLES
    maxX,     \* Grid: constructor argument maxX
    maxY,     \* Grid: constructor argument maxY
    grid,     \* Grid: the Map `grid`, in insertion order: <<[key, cell], ...>>
    held,     \* the caller's reference to a Cell object
    coords,   \* the caller's array of Coordinates objects
    last,     \* the last call made: [op, args, threw]
    before,   \* history: the Map `grid` as it was when the last call was made
    placed,   \* history: what the last tryGenerate* call wrote
    calls,    \* history: number of calls made so far, where a run is bounded
    returned, \* the value the last neighbors / serialize call returned
    loop,     \* the locals of a tick() or tryGenerate* call that is under way
    players,  \* the server's Map `players`: <<[id, color], ...>>
    webSockets \* the server's array `webSockets`

vars == <<maxX, maxY, grid, held, coords, last, before, placed, calls,
          returned, loop, players, webSockets>>

---------------------------------------------------------------------------
(* Bounds of the model. *)

\* Largest absolute value of a number handed to the Coordinates constructor.
MaxCoord == 3

\* Number of calls a caller of the Grid makes in SpecGrid.
MaxCalls == 5

\* The grid of SpecPattern has the positions 0..PatternMaxX by 0..PatternMaxY.
PatternMaxX == 3

PatternMaxY == 3

\* Number of ticks after a placement in SpecPattern.
MaxPatternTicks == 4

\* The grid of SpecTick has the positions 0..TickMaxX by 0..2.
TickMaxX == 2

\* Number of ticks in a row in SpecTick.
MaxTicks == 2

\* The grid of SpecGrid has the positions 0..GridMaxX by 0..1.
GridMaxX == 1

---------------------------------------------------------------------------
(* JavaScript values. *)

Null == <<>>

Integer(n) == [integer |-> TRUE, n |-> n]

Fraction(n) == [integer |-> FALSE, n |-> n]

NaN == [integer |-> FALSE, n |-> 0]

IsInteger(v) == v.integer

Digits == <<"0", "1", "2", "3", "4", "5", "6", "7", "8", "9">>

RECURSIVE NatToString(_)
NatToString(n) ==
    IF n < 10 THEN <<Digits[n + 1]>>
    ELSE NatToString(n \div 10) \o <<Digits[(n % 10) + 1]>>

\* Number.prototype.toString of an integer.
NumberToString(n) ==
    IF n < 0 THEN <<"-">> \o NatToString(-n) ELSE NatToString(n)

\* String.prototype.split with a one-character separator.
RECURSIVE Split(_, _)
Split(s, sep) ==
    IF \E i \in 1..Len(s) : s[i] = sep
    THEN LET i == CHOOSE i \in 1..Len(s) :
                      s[i] = sep /\ \A j \in 1..(i - 1) : s[j] # sep
         IN <<SubSeq(s, 1, i - 1)>> \o Split(SubSeq(s, i + 1, Len(s)), sep)
    ELSE <<s>>

IsDigit(ch) == \E d \in 1..10 : Digits[d] = ch

DigitValue(ch) == (CHOOSE d \in 1..10 : Digits[d] = ch) - 1

\* The value of the longest prefix of digits of s, continuing from acc.
RECURSIVE DigitsValue(_, _)
DigitsValue(s, acc) ==
    IF s = <<>> \/ ~IsDigit(Head(s)) THEN acc
    ELSE DigitsValue(Tail(s), 10 * acc + DigitValue(Head(s)))

RECURSIVE TrimStart(_)
TrimStart(s) == IF s # <<>> /\ Head(s) = " " THEN TrimStart(Tail(s)) ELSE s

HexDigits ==
    <<"0", "1", "2", "3", "4", "5", "6", "7", "8", "9",
      "a", "b", "c", "d", "e", "f">>

HexDigitsUpper ==
    <<"0", "1", "2", "3", "4", "5", "6", "7", "8", "9",
      "A", "B", "C", "D", "E", "F">>

IsHexDigit(ch) == \E d \in 1..16 : ch \in {HexDigits[d], HexDigitsUpper[d]}

\* The value of the longest prefix of hexadecimal digits of s.
RECURSIVE HexDigitsValue(_, _)
HexDigitsValue(s, acc) ==
    IF s = <<>> \/ ~IsHexDigit(Head(s)) THEN acc
    ELSE HexDigitsValue(Tail(s),
                        16 * acc
                            + (CHOOSE d \in 1..16 :
                                   Head(s) \in {HexDigits[d], HexDigitsUpper[d]}) - 1)

\* parseInt(string): leading blanks, an optional sign, then the longest
\* prefix of digits, hexadecimal ones after "0x"; NaN when there is no digit
\* there.
ParseInt(string) ==
    LET t      == TrimStart(string)
        signed == t # <<>> /\ Head(t) \in {"-", "+"}
        body   == IF signed THEN Tail(t) ELSE t
        hex    == Len(body) >= 2 /\ body[1] = "0" /\ body[2] \in {"x", "X"}
        value  == IF hex THEN HexDigitsValue(SubSeq(body, 3, Len(body)), 0)
                  ELSE DigitsValue(body, 0)
    IN IF hex /\ (Len(body) < 3 \/ ~IsHexDigit(body[3])) THEN NaN
       ELSE IF ~hex /\ (body = <<>> \/ ~IsDigit(Head(body))) THEN NaN
       ELSE IF signed /\ Head(t) = "-" THEN Integer(-value)
       ELSE Integer(value)

---------------------------------------------------------------------------
(* Coordinates *)

\* new Coordinates(x, y) with an added assertion that x and y are not negative.
CoordinatesNewNonNegative(x, y) ==
    IF IsInteger(x) /\ IsInteger(y) /\ x.n >= 0 /\ y.n >= 0
    THEN [threw |-> FALSE, value |-> [x |-> x.n, y |-> y.n]]
    ELSE [threw |-> TRUE, value |-> Null]

\* new Coordinates(x, y): the two assertions, then the object.
CoordinatesNew(x, y) ==
    IF IsInteger(x) /\ IsInteger(y)
    THEN [threw |-> FALSE, value |-> [x |-> x.n, y |-> y.n]]
    ELSE [threw |-> TRUE, value |-> Null]

\* Coordinates.prototype.addOffsets: one new Coordinates per offset, in order.
addOffsets(c, offsets) ==
    [i \in 1..Len(offsets) |->
        CoordinatesNew(Integer(c.x + offsets[i][1]), Integer(c.y + offsets[i][2])).value]

\* Coordinates.prototype.toString
CoordinatesToString(c) ==
    NumberToString(c.x) \o <<",">> \o NumberToString(c.y)

---------------------------------------------------------------------------
(* Cell *)

\* new Cell(coordinates)
CellNew(c) == [coordinates |-> c, alive |-> FALSE, color |-> Null]

ValidChannel(v) == IsInteger(v) /\ v.n >= 0 /\ v.n <= 255

\* Cell.setColor with a valid channel test that forgets the upper limit.
setColorNoRange(cell, newColor) ==
    IF /\ Len(newColor) = 3
       /\ \A i \in 1..3 : IsInteger(newColor[i])
    THEN [threw |-> FALSE,
          cell |-> [cell EXCEPT !.color = [i \in 1..3 |-> newColor[i].n]]]
    ELSE [threw |-> TRUE, cell |-> cell]

\* Cell.setColor
setColor(cell, newColor) ==
    IF /\ Len(newColor) = 3
       /\ ValidChannel(newColor[1])
       /\ ValidChannel(newColor[2])
       /\ ValidChannel(newColor[3])
    THEN [threw |-> FALSE,
          cell |-> [cell EXCEPT !.color = [i \in 1..3 |-> newColor[i].n]]]
    ELSE [threw |-> TRUE, cell |-> cell]

\* Cell.setAlive without its assertion.
setAliveNoAssert(cell) ==
    [threw |-> FALSE, cell |-> [cell EXCEPT !.alive = TRUE]]

\* Cell.setAlive
setAlive(cell) ==
    IF cell.color # Null
    THEN [threw |-> FALSE, cell |-> [cell EXCEPT !.alive = TRUE]]
    ELSE [threw |-> TRUE, cell |-> cell]

\* Cell.setDead that keeps the colour.
setDeadKeepColor(cell) ==
    [threw |-> FALSE, cell |-> [cell EXCEPT !.alive = FALSE]]

\* Cell.setDead
setDead(cell) ==
    [threw |-> FALSE, cell |-> [cell EXCEPT !.alive = FALSE, !.color = Null]]

---------------------------------------------------------------------------
(* Grid: storage *)

\* Position of `key` in the Map, 0 when the Map has no such key.
MapIndex(m, key) ==
    IF \E i \in 1..Len(m) : m[i].key = key
    THEN CHOOSE i \in 1..Len(m) : m[i].key = key
    ELSE 0

MapHas(m, key) == MapIndex(m, key) # 0

MapGet(m, key) == m[MapIndex(m, key)].cell

\* Map.prototype.set: a new key goes last, a known key keeps its place.
MapSet(m, key, cell) ==
    IF MapHas(m, key)
    THEN [m EXCEPT ![MapIndex(m, key)].cell = cell]
    ELSE Append(m, [key |-> key, cell |-> cell])

\* The bounds assertions without their upper limits.
InBoundsLowerOnly(c) == c.x >= 0 /\ c.y >= 0

\* The bounds assertions of getCell and setCell.
InBounds(c) == c.x >= 0 /\ c.x <= maxX /\ c.y >= 0 /\ c.y <= maxY

\* Grid.setCell that keeps a cell already stored at the coordinates.
setCellKeepExisting(m, cell) ==
    IF InBounds(cell.coordinates)
    THEN [threw |-> FALSE,
          grid |-> IF MapHas(m, CoordinatesToString(cell.coordinates))
                   THEN m
                   ELSE MapSet(m, CoordinatesToString(cell.coordinates), cell)]
    ELSE [threw |-> TRUE, grid |-> m]

\* Grid.setCell
setCell(m, cell) ==
    IF InBounds(cell.coordinates)
    THEN [threw |-> FALSE,
          grid |-> MapSet(m, CoordinatesToString(cell.coordinates), cell)]
    ELSE [threw |-> TRUE, grid |-> m]

\* Grid.getCell that stores a fresh cell on every call.
getCellAlwaysFresh(m, c) ==
    IF InBounds(c) THEN setCell(m, CellNew(c)) ELSE [threw |-> TRUE, grid |-> m]

\* Grid.getCell: the returned cell is the one stored under the key afterwards.
getCell(m, c) ==
    IF InBounds(c)
    THEN IF MapHas(m, CoordinatesToString(c))
         THEN [threw |-> FALSE, grid |-> m]
         ELSE setCell(m, CellNew(c))
    ELSE [threw |-> TRUE, grid |-> m]

\* coordinatesArray.map(this.getCell, this): the Map afterwards and the keys of
\* the cells returned, in order; stops at the first call that throws.
RECURSIVE getCells(_, _)
getCells(m, cs) ==
    IF cs = <<>> THEN [threw |-> FALSE, grid |-> m, cells |-> <<>>]
    ELSE LET first == getCell(m, Head(cs)) IN
         IF first.threw THEN [threw |-> TRUE, grid |-> first.grid, cells |-> <<>>]
         ELSE LET rest == getCells(first.grid, Tail(cs)) IN
              [threw |-> rest.threw,
               grid  |-> rest.grid,
               cells |-> <<CoordinatesToString(Head(cs))>> \o rest.cells]

NeighborOffsets ==
    << <<-1, -1>>, <<0, -1>>, <<1, -1>>, <<-1, 0>>,
       <<1, 0>>, <<-1, 1>>, <<0, 1>>, <<1, 1>> >>

\* Grid.prototype.neighbors without the filter on the bounds.
neighborsUnclipped(m, cell) ==
    getCells(m, addOffsets(cell.coordinates, NeighborOffsets))

\* Grid.prototype.neighbors: the Map afterwards and the neighbours' keys.
neighbors(m, cell) ==
    getCells(m, SelectSeq(addOffsets(cell.coordinates, NeighborOffsets), InBounds))

---------------------------------------------------------------------------
(* Grid.tick *)

\* Math.round of sum / 3 for a sum that is not negative.
RoundThird(sum) == (2 * sum + 3) \div 6

\* The colour of a revived cell.  The program averages the three colours in
\* Lab space with the color-space package (rgb.lab, lab.rgb), which is not
\* part of the repository; here the average is taken on the RGB channels.
\* Like the program's, the result is a function of the three colours in
\* the order of liveNeighbors, rounded to integers.
averageColor(c1, c2, c3) ==
    [i \in 1..3 |-> Integer(RoundThird(c1[i] + c2[i] + c3[i]))]

\* Array.from(grid.values()).filter(cell => cell.isAlive()), as keys.
RECURSIVE liveCells(_)
liveCells(m) ==
    IF m = <<>> THEN <<>>
    ELSE (IF Head(m).cell.alive THEN <<Head(m).key>> ELSE <<>>) \o liveCells(Tail(m))

\* The state of tick() when its loop starts.  Cells are named by their
\* keys: every cell the loop meets is the one the Map stores under its key.
tickStart(m) ==
    [grid          |-> m,
     cellsToCheck  |-> liveCells(m),
     cellsChecked  |-> {},
     cellsToSwitch |-> <<>>]

\* tickCheck that flips a cell as soon as it is checked instead of listing
\* it in cellsToSwitch.
tickCheckEager(t) ==
    LET k    == t.cellsToCheck[Len(t.cellsToCheck)]
        rest == SubSeq(t.cellsToCheck, 1, Len(t.cellsToCheck) - 1)
    IN
    IF k \in t.cellsChecked THEN [t EXCEPT !.cellsToCheck = rest]
    ELSE
        LET nb      == neighbors(t.grid, MapGet(t.grid, k))
            cell    == MapGet(nb.grid, k)
            live    == SelectSeq(nb.cells, LAMBDA n : MapGet(nb.grid, n).alive)
            dies    == cell.alive /\ (Len(live) < 2 \/ Len(live) > 3)
            revives == ~cell.alive /\ Len(live) = 3
            colored == setColor(cell, averageColor(MapGet(nb.grid, live[1]).color,
                                                   MapGet(nb.grid, live[2]).color,
                                                   MapGet(nb.grid, live[3]).color)).cell
        IN
        [grid          |-> IF revives
                           THEN MapSet(nb.grid, k, setAlive(colored).cell)
                           ELSE IF dies THEN MapSet(nb.grid, k, setDead(cell).cell)
                           ELSE nb.grid,
         cellsToCheck  |-> IF cell.alive THEN rest \o nb.cells ELSE rest,
         cellsChecked  |-> t.cellsChecked \cup {k},
         cellsToSwitch |-> t.cellsToSwitch]

\* tickCheck with the overcrowding limit off by one: a live cell with three
\* live neighbours dies.
tickCheckCrowdedAtThree(t) ==
    LET k    == t.cellsToCheck[Len(t.cellsToCheck)]
        rest == SubSeq(t.cellsToCheck, 1, Len(t.cellsToCheck) - 1)
    IN
    IF k \in t.cellsChecked THEN [t EXCEPT !.cellsToCheck = rest]
    ELSE
        LET nb      == neighbors(t.grid, MapGet(t.grid, k))
            cell    == MapGet(nb.grid, k)
            live    == SelectSeq(nb.cells, LAMBDA n : MapGet(nb.grid, n).alive)
            dies    == cell.alive /\ (Len(live) < 2 \/ Len(live) >= 3)
            revives == ~cell.alive /\ Len(live) = 3
            colored == setColor(cell, averageColor(MapGet(nb.grid, live[1]).color,
                                                   MapGet(nb.grid, live[2]).color,
                                                   MapGet(nb.grid, live[3]).color)).cell
        IN
        [grid          |-> IF revives THEN MapSet(nb.grid, k, colored)
                           ELSE nb.grid,
         cellsToCheck  |-> IF cell.alive THEN rest \o nb.cells ELSE rest,
         cellsChecked  |-> t.cellsChecked \cup {k},
         cellsToSwitch |-> IF dies \/ revives THEN Append(t.cellsToSwitch, k)
                           ELSE t.cellsToSwitch]

\* tickCheck that does not add the cell it checks to cellsChecked.
tickCheckForgetChecked(t) ==
    LET k    == t.cellsToCheck[Len(t.cellsToCheck)]
        rest == SubSeq(t.cellsToCheck, 1, Len(t.cellsToCheck) - 1)
    IN
    IF k \in t.cellsChecked THEN [t EXCEPT !.cellsToCheck = rest]
    ELSE
        LET nb      == neighbors(t.grid, MapGet(t.grid, k))
            cell    == MapGet(nb.grid, k)
            live    == SelectSeq(nb.cells, LAMBDA n : MapGet(nb.grid, n).alive)
            dies    == cell.alive /\ (Len(live) < 2 \/ Len(live) > 3)
            revives == ~cell.alive /\ Len(live) = 3
            colored == setColor(cell, averageColor(MapGet(nb.grid, live[1]).color,
                                                   MapGet(nb.grid, live[2]).color,
                                                   MapGet(nb.grid, live[3]).color)).cell
        IN
        [grid          |-> IF revives THEN MapSet(nb.grid, k, colored)
                           ELSE nb.grid,
         cellsToCheck  |-> IF cell.alive THEN rest \o nb.cells ELSE rest,
         cellsChecked  |-> t.cellsChecked,
         cellsToSwitch |-> IF dies \/ revives THEN Append(t.cellsToSwitch, k)
                           ELSE t.cellsToSwitch]

\* tickCheck that takes every neighbour with a colour for a live one.
tickCheckColoredIsLive(t) ==
    LET k    == t.cellsToCheck[Len(t.cellsToCheck)]
        rest == SubSeq(t.cellsToCheck, 1, Len(t.cellsToCheck) - 1)
    IN
    IF k \in t.cellsChecked THEN [t EXCEPT !.cellsToCheck = rest]
    ELSE
        LET nb      == neighbors(t.grid, MapGet(t.grid, k))
            cell    == MapGet(nb.grid, k)
            live    == SelectSeq(nb.cells, LAMBDA n : MapGet(nb.grid, n).color # Null)
            dies    == cell.alive /\ (Len(live) < 2 \/ Len(live) > 3)
            revives == ~cell.alive /\ Len(live) = 3
            colored == setColor(cell, averageColor(MapGet(nb.grid, live[1]).color,
                                                   MapGet(nb.grid, live[2]).color,
                                                   MapGet(nb.grid, live[3]).color)).cell
        IN
        [grid          |-> IF revives THEN MapSet(nb.grid, k, colored)
                           ELSE nb.grid,
         cellsToCheck  |-> IF cell.alive THEN rest \o nb.cells ELSE rest,
         cellsChecked  |-> t.cellsChecked \cup {k},
         cellsToSwitch |-> IF dies \/ revives THEN Append(t.cellsToSwitch, k)
                           ELSE t.cellsToSwitch]

\* One pass of the while loop of tick(): pop a cell and check it.
tickCheck(t) ==
    LET k    == t.cellsToCheck[Len(t.cellsToCheck)]
        rest == SubSeq(t.cellsToCheck, 1, Len(t.cellsToCheck) - 1)
    IN
    IF k \in t.cellsChecked THEN [t EXCEPT !.cellsToCheck = rest]
    ELSE
        LET nb      == neighbors(t.grid, MapGet(t.grid, k))
            cell    == MapGet(nb.grid, k)
            live    == SelectSeq(nb.cells, LAMBDA n : MapGet(nb.grid, n).alive)
            dies    == cell.alive /\ (Len(live) < 2 \/ Len(live) > 3)
            revives == ~cell.alive /\ Len(live) = 3
            colored == setColor(cell, averageColor(MapGet(nb.grid, live[1]).color,
                                                   MapGet(nb.grid, live[2]).color,
                                                   MapGet(nb.grid, live[3]).color)).cell
        IN
        [grid          |-> IF revives THEN MapSet(nb.grid, k, colored)
                           ELSE nb.grid,
         cellsToCheck  |-> IF cell.alive THEN rest \o nb.cells ELSE rest,
         cellsChecked  |-> t.cellsChecked \cup {k},
         cellsToSwitch |-> IF dies \/ revives THEN Append(t.cellsToSwitch, k)
                           ELSE t.cellsToSwitch]

\* The while loop of tick().
RECURSIVE tickLoop(_)
tickLoop(t) == IF t.cellsToCheck = <<>> THEN t ELSE tickLoop(tickCheck(t))

\* cellsToSwitch.forEach(...): each listed cell flips.
RECURSIVE tickSwitch(_, _)
tickSwitch(m, cells) ==
    IF cells = <<>> THEN m
    ELSE LET cell == MapGet(m, Head(cells)) IN
         tickSwitch(MapSet(m, Head(cells),
                           IF cell.alive THEN setDead(cell).cell
                           ELSE setAlive(cell).cell),
                    Tail(cells))

\* Grid.tick: the Map after the call.
tick(m) ==
    LET t == tickLoop(tickStart(m)) IN tickSwitch(t.grid, t.cellsToSwitch)

---------------------------------------------------------------------------
(* Grid.serialize *)

\* Array.prototype.join of an array of strings.
RECURSIVE Join(_, _)
Join(strings, sep) ==
    IF strings = <<>> THEN <<>>
    ELSE IF Len(strings) = 1 THEN strings[1]
    ELSE strings[1] \o sep \o Join(Tail(strings), sep)

\* ("0" + n.toString()).slice(-2)
Pad2(n) ==
    LET s == <<"0">> \o NumberToString(n) IN SubSeq(s, Len(s) - 1, Len(s))

\* The x,y,R,G,B string of one cell.
serializeCell(cell) ==
    Join(<<NumberToString(cell.coordinates.x),
           NumberToString(cell.coordinates.y),
           Join([i \in 1..Len(cell.color) |-> NumberToString(cell.color[i])], <<",">>)>>,
         <<",">>)

\* Grid.serialize that lists every stored cell that has a colour.
serializeColored(m, now) ==
    LET date == Join(<<Pad2(now[1]), Pad2(now[2]), Pad2(now[3])>>, <<>>)
        colored == SelectSeq(m, LAMBDA e : e.cell.color # Null)
        cells == Join([i \in 1..Len(colored) |-> serializeCell(colored[i].cell)], <<"|">>)
    IN IF Len(cells) > 0 THEN Join(<<date, cells>>, <<"|">>) ELSE date

\* Grid.serialize; now is what new Date() gives: <<hours, minutes, seconds>>.
serialize(m, now) ==
    LET date == Join(<<Pad2(now[1]), Pad2(now[2]), Pad2(now[3])>>, <<>>)
        live == liveCells(m)
        cells == Join([i \in 1..Len(live) |-> serializeCell(MapGet(m, live[i]))], <<"|">>)
    IN IF Len(cells) > 0 THEN Join(<<date, cells>>, <<"|">>) ELSE date

---------------------------------------------------------------------------
(* Grid: random placement of patterns *)

\* The positions in the order of the two loops that fill allCoordinates.
RowMajor ==
    [i \in 1..((maxX + 1) * (maxY + 1)) |->
        [x |-> (i - 1) % (maxX + 1), y |-> (i - 1) \div (maxX + 1)]]

\* allCoordinates: the strings "x,y" of all positions, in insertion order.
allCoordinates ==
    [i \in 1..Len(RowMajor) |->
        CoordinatesToString(CoordinatesNew(Integer(RowMajor[i].x),
                                           Integer(RowMajor[i].y)).value)]

\* getAllDeadCells: the strings of allCoordinates without those of the live
\* cells, each parsed back to Coordinates and passed to getCell.  The Map
\* afterwards and the keys of the cells returned.
getAllDeadCells(m) ==
    LET deadCoordinates ==
            SelectSeq(allCoordinates,
                      LAMBDA string : ~(MapHas(m, string) /\ MapGet(m, string).alive))
        parsed ==
            [i \in 1..Len(deadCoordinates) |->
                LET xy == Split(deadCoordinates[i], ",") IN
                CoordinatesNew(ParseInt(xy[1]), ParseInt(xy[2])).value]
    IN getCells(m, parsed)

\* filterValidVariations without the test that the cells are dead.
filterValidVariationsUnfiltered(m, key, variations) ==
    LET got == [v \in 1..Len(variations) |->
                   getCells(m, addOffsets(MapGet(m, key).coordinates, variations[v]))]
    IN [threw |-> \E v \in 1..Len(variations) : got[v].threw,
        variations |-> [v \in 1..Len(variations) |-> got[v].cells]]

\* filterValidVariations: the variations around the cell under `key` all of
\* whose cells are dead, each as the keys of its cells.  The call throws when
\* a getCell in it does (an offset that leaves the grid).
filterValidVariations(m, key, variations) ==
    LET got == [v \in 1..Len(variations) |->
                   getCells(m, addOffsets(MapGet(m, key).coordinates, variations[v]))]
        cells == [v \in 1..Len(variations) |-> got[v].cells]
    IN [threw |-> \E v \in 1..Len(variations) : got[v].threw,
        variations |->
            SelectSeq(cells,
                      LAMBDA variation :
                          Len(SelectSeq(variation, LAMBDA k : ~MapGet(m, k).alive))
                              = Len(variation))]

\* array.splice(index, 1)
Splice(array, index) ==
    SubSeq(array, 1, index - 1) \o SubSeq(array, index + 1, Len(array))

\* The loop of tryInstantiatePattern that gives up after its first candidate.
cellsToSetFirstTry(m, deadCells, variations) ==
    IF deadCells = <<>> THEN {[threw |-> FALSE, cells |-> <<>>]}
    ELSE UNION {
            LET valid == filterValidVariations(m, deadCells[index], variations)
            IN IF valid.threw THEN {[threw |-> TRUE, cells |-> <<>>]}
               ELSE IF Len(valid.variations) > 0
               THEN {[threw |-> FALSE, cells |-> valid.variations[v]] :
                        v \in 1..Len(valid.variations)}
               ELSE {[threw |-> FALSE, cells |-> <<>>]}
            : index \in 1..Len(deadCells) }

\* The loop of tryInstantiatePattern: every cellsToSet that some sequence of
\* Math.random() values leads to; <<>> stands for an undefined cellsToSet.
RECURSIVE cellsToSetChoices(_, _, _)
cellsToSetChoices(m, deadCells, variations) ==
    IF deadCells = <<>> THEN {[threw |-> FALSE, cells |-> <<>>]}
    ELSE UNION {
            LET valid == filterValidVariations(m, deadCells[index], variations)
            IN IF valid.threw THEN {[threw |-> TRUE, cells |-> <<>>]}
               ELSE IF Len(valid.variations) > 0
               THEN {[threw |-> FALSE, cells |-> valid.variations[v]] :
                        v \in 1..Len(valid.variations)}
               ELSE cellsToSetChoices(m, Splice(deadCells, index), variations)
            : index \in 1..Len(deadCells) }

\* cellsToSet.forEach(cell => cell.setColor(color).setAlive())
RECURSIVE setCells(_, _, _)
setCells(m, cellsToSet, color) ==
    IF cellsToSet = <<>> THEN [threw |-> FALSE, grid |-> m]
    ELSE LET colored == setColor(MapGet(m, Head(cellsToSet)), color) IN
         IF colored.threw THEN [threw |-> TRUE, grid |-> m]
         ELSE setCells(MapSet(m, Head(cellsToSet), setAlive(colored.cell).cell),
                       Tail(cellsToSet), color)

\* tryInstantiatePattern: the possible results, each with the cells it set.
tryInstantiatePattern(m, deadCells, variations, color) ==
    {[threw |-> choice.threw \/ setCells(m, choice.cells, color).threw,
      grid  |-> setCells(m, choice.cells, color).grid,
      cells |-> choice.cells] :
        choice \in cellsToSetChoices(m, deadCells, variations)}

\* The filter of tryGenerateBlock that keeps the rightmost column and the
\* bottom row.
blockCenterAnywhere(c) == c.x <= maxX /\ c.y <= maxY

\* The filter of tryGenerateBlock on the dead cells.
blockCenter(c) == c.x < maxX /\ c.y < maxY

\* The filter of tryGenerateBlinker and of tryGenerateGlider.
innerCenter(c) == c.x > 0 /\ c.x < maxX /\ c.y > 0 /\ c.y < maxY

BlockVariations == << << <<0, 0>>, <<1, 0>>, <<0, 1>>, <<1, 1>> >> >>

BlinkerVariations ==
    << << <<-1, 0>>, <<0, 0>>, <<1, 0>> >>,
       << <<0, -1>>, <<0, 0>>, <<0, 1>> >> >>

GliderVariations ==
    << << <<0, -1>>, <<1, 0>>, <<-1, 1>>, <<0, 1>>, <<1, 1>> >>,
       << <<-1, -1>>, <<1, -1>>, <<0, 0>>, <<1, 0>>, <<0, 1>> >>,
       << <<-1, 0>>, <<0, 1>>, <<1, 1>>, <<1, 0>>, <<1, -1>> >>,
       << <<-1, -1>>, <<0, 0>>, <<1, 0>>, <<-1, 1>>, <<0, 1>> >> >>

\* tryGenerateBlock: the possible results of the call on Map m.
tryGenerateBlock(m, color) ==
    LET dead == getAllDeadCells(m) IN
    tryInstantiatePattern(
        dead.grid,
        SelectSeq(dead.cells, LAMBDA k : blockCenter(MapGet(dead.grid, k).coordinates)),
        BlockVariations, color)

\* tryGenerateBlinker: the possible results of the call on Map m.
tryGenerateBlinker(m, color) ==
    LET dead == getAllDeadCells(m) IN
    tryInstantiatePattern(
        dead.grid,
        SelectSeq(dead.cells, LAMBDA k : innerCenter(MapGet(dead.grid, k).coordinates)),
        BlinkerVariations, color)

\* tryGenerateGlider: the possible results of the call on Map m.
tryGenerateGlider(m, color) ==
    LET dead == getAllDeadCells(m) IN
    tryInstantiatePattern(
        dead.grid,
        SelectSeq(dead.cells, LAMBDA k : innerCenter(MapGet(dead.grid, k).coordinates)),
        GliderVariations, color)

---------------------------------------------------------------------------
(* The caller's reference to a Cell object.  A Cell object is either the   *)
(* one the Grid stores under a key (owner "grid") or an object the Grid    *)
(* does not store (owner "caller"), whose fields the reference carries.    *)

NoCell == [owner |-> "none", key |-> <<>>, cell |-> Null]

\* No tick() or tryGenerate* call is under way.
Idle == [op |-> "idle"]

CallerCell(cell) == [owner |-> "caller", key |-> <<>>, cell |-> cell]

GridCell(key) == [owner |-> "grid", key |-> key, cell |-> Null]

HeldCell == IF held.owner = "grid" THEN MapGet(grid, held.key) ELSE held.cell

\* A mutator's assignment to the fields of the held object.
StoreHeld(cell) ==
    IF held.owner = "grid"
    THEN grid' = MapSet(grid, held.key, cell) /\ held' = held
    ELSE grid' = grid /\ held' = CallerCell(cell)

Call(op, args, threw) == [op |-> op, args |-> args, threw |-> threw]

---------------------------------------------------------------------------
(* Inputs *)

NumberInputs ==
    {Integer(n) : n \in -MaxCoord..MaxCoord} \cup {Fraction(1), NaN}

Red == <<255, 0, 0>>

Blue == <<0, 0, 255>>

Palette == {Red, Blue}

ColorInputs ==
    { <<Integer(255), Integer(0), Integer(0)>>,
      <<Integer(0), Integer(0), Integer(255)>>,
      <<Integer(0), Integer(128)>>,
      <<Integer(256), Integer(0), Integer(0)>>,
      <<Integer(0), Integer(-1), Integer(0)>>,
      <<Integer(0), Integer(0), Fraction(127)>>,
      <<NaN, Integer(0), Integer(0)>> }

---------------------------------------------------------------------------
(* Calls on Coordinates *)

NewCoordinates(x, y) ==
    LET r == CoordinatesNew(x, y) IN
    /\ coords' = IF r.threw THEN coords ELSE <<r.value>>
    /\ last' = Call("Coordinates", <<x, y>>, r.threw)

    /\ before' = grid
    /\ UNCHANGED <<returned, loop, players, webSockets, placed, maxX, maxY, grid, held>>

AddOffsets(i, offsets) ==
    /\ i \in 1..Len(coords)
    /\ coords[i].x \in -MaxCoord..MaxCoord
    /\ coords[i].y \in -MaxCoord..MaxCoord
    /\ coords' = addOffsets(coords[i], offsets)
    /\ last' = Call("addOffsets", <<coords[i], offsets>>, FALSE)

    /\ before' = grid
    /\ UNCHANGED <<returned, loop, players, webSockets, placed, maxX, maxY, grid, held>>

---------------------------------------------------------------------------
(* Calls on a Cell *)

NewCell(c) ==
    /\ held' = CallerCell(CellNew(c))
    /\ last' = Call("Cell", <<c>>, FALSE)

    /\ before' = grid
    /\ UNCHANGED <<returned, loop, players, webSockets, placed, maxX, maxY, grid, coords>>

SetColor(newColor) ==
    /\ held # NoCell
    /\ LET r == setColor(HeldCell, newColor) IN
       /\ StoreHeld(r.cell)
       /\ last' = Call("setColor", <<newColor>>, r.threw)

       /\ before' = grid
    /\ UNCHANGED <<returned, loop, players, webSockets, placed, maxX, maxY, coords>>

SetAlive ==
    /\ held # NoCell
    /\ LET r == setAlive(HeldCell) IN
       /\ StoreHeld(r.cell)
       /\ last' = Call("setAlive", <<>>, r.threw)

       /\ before' = grid
    /\ UNCHANGED <<returned, loop, players, webSockets, placed, maxX, maxY, coords>>

SetDead ==
    /\ held # NoCell
    /\ LET r == setDead(HeldCell) IN
       /\ StoreHeld(r.cell)
       /\ last' = Call("setDead", <<>>, r.threw)

       /\ before' = grid
    /\ UNCHANGED <<returned, loop, players, webSockets, placed, maxX, maxY, coords>>

---------------------------------------------------------------------------
(* Calls on the Grid *)

\* grid.getCell(c): the caller holds the returned cell.
GetCell(c) ==
    LET r == getCell(grid, c) IN
    /\ grid' = r.grid
    /\ held' = IF r.threw THEN held ELSE GridCell(CoordinatesToString(c))
    /\ last' = Call("getCell", <<c>>, r.threw)

    /\ before' = grid
    /\ UNCHANGED <<returned, loop, players, webSockets, placed, maxX, maxY, coords>>

\* grid.setCell(cell) with the cell the caller holds; the Grid stores that
\* very object, so the caller's reference is to the stored cell afterwards.
SetCell ==
    /\ held # NoCell
    /\ LET cell == HeldCell
           r == setCell(grid, cell) IN
       /\ grid' = r.grid
       /\ held' = IF r.threw THEN held
                  ELSE GridCell(CoordinatesToString(cell.coordinates))
       /\ last' = Call("setCell", <<cell>>, r.threw)

       /\ before' = grid
    /\ UNCHANGED <<returned, loop, players, webSockets, placed, maxX, maxY, coords>>

\* grid.tick()
Tick ==
    /\ grid' = tick(grid)
    /\ last' = Call("tick", <<>>, FALSE)
    /\ before' = grid
    /\ UNCHANGED <<returned, loop, players, webSockets, placed, maxX, maxY, held, coords>>

NoPattern == [pattern |-> "none", cells |-> {}, color |-> Null]

\* The record of a tryGenerate* call: the coordinates of the cells it set.
Placement(pattern, m, r, color) ==
    [pattern |-> pattern,
     cells   |-> {MapGet(m, r.cells[i]).coordinates : i \in 1..Len(r.cells)},
     color   |-> color]

\* grid.tryGenerateBlock(color)
TryGenerateBlock(color) ==
    /\ \E r \in tryGenerateBlock(grid, color) :
           /\ grid' = r.grid
           /\ last' = Call("tryGenerateBlock", <<color>>, r.threw)
           /\ placed' = Placement("block", r.grid, r, color)
    /\ before' = grid
    /\ UNCHANGED <<returned, loop, players, webSockets, maxX, maxY, held, coords>>

\* grid.tryGenerateBlinker(color)
TryGenerateBlinker(color) ==
    /\ \E r \in tryGenerateBlinker(grid, color) :
           /\ grid' = r.grid
           /\ last' = Call("tryGenerateBlinker", <<color>>, r.threw)
           /\ placed' = Placement("blinker", r.grid, r, color)
    /\ before' = grid
    /\ UNCHANGED <<returned, loop, players, webSockets, maxX, maxY, held, coords>>

\* grid.tryGenerateGlider(color)
TryGenerateGlider(color) ==
    /\ \E r \in tryGenerateGlider(grid, color) :
           /\ grid' = r.grid
           /\ last' = Call("tryGenerateGlider", <<color>>, r.threw)
           /\ placed' = Placement("glider", r.grid, r, color)
    /\ before' = grid
    /\ UNCHANGED <<returned, loop, players, webSockets, maxX, maxY, held, coords>>

---------------------------------------------------------------------------
(* Construction *)

\* new Grid(mx, my): an empty Map; the caller holds nothing yet.
GridNew(mx, my) ==
    /\ maxX = mx
    /\ maxY = my
    /\ grid = <<>>
    /\ held = NoCell
    /\ coords = <<>>
    /\ last = Call("Grid", <<mx, my>>, FALSE)
    /\ before = <<>>
    /\ placed = NoPattern
    /\ calls = 0
    /\ returned = Null
    /\ loop = Idle
    /\ players = <<>>
    /\ webSockets = <<>>

\* A specification that bounds the length of its runs counts the calls; the
\* others leave the counter alone.
Counted == calls < MaxCalls /\ calls' = calls + 1

Uncounted == UNCHANGED calls

---------------------------------------------------------------------------
(* SpecCoordinates: a caller that constructs Coordinates and adds offsets. *)

Range(f) == {f[i] : i \in DOMAIN f}

\* The offset arrays the program passes to addOffsets.
OffsetInputs ==
    {NeighborOffsets} \cup Range(BlockVariations)
        \cup Range(BlinkerVariations) \cup Range(GliderVariations)

InitCoordinates == GridNew(0, 0)

NextCoordinates ==
    \/ \E x \in NumberInputs, y \in NumberInputs :
           NewCoordinates(x, y) /\ Uncounted
    \/ \E i \in 1..Len(coords), offsets \in OffsetInputs :
           AddOffsets(i, offsets) /\ Uncounted

SpecCoordinates == InitCoordinates /\ [][NextCoordinates]_vars

---------------------------------------------------------------------------
(* SpecCell: a caller that constructs one Cell and calls its methods in    *)
(* any order with valid and invalid colours.                               *)

\* Coordinates objects a caller passes: every position of the grid and the
\* ring of positions around it.
CoordinatesInputs ==
    {[x |-> x, y |-> y] : x \in -1..(maxX + 1), y \in -1..(maxY + 1)}

InitCell == GridNew(1, 1)

NextCell ==
    \/ \E c \in CoordinatesInputs : NewCell(c) /\ Uncounted
    \/ \E newColor \in ColorInputs : SetColor(newColor) /\ Uncounted
    \/ SetAlive /\ Uncounted
    \/ SetDead /\ Uncounted

SpecCell == InitCell /\ [][NextCell]_vars

---------------------------------------------------------------------------
(* Claims about Cell *)

\* C6: under any sequence of setColor / setAlive / setDead calls a cell that
\* is alive has a colour, and setAlive() on a cell without a colour fails
\* and leaves the cell dead and colourless.
C6_AliveImpliesColor ==
    held # NoCell =>
        /\ HeldCell.alive => HeldCell.color # Null
        /\ (last.op = "setAlive" /\ HeldCell.color = Null) =>
               last.threw /\ ~HeldCell.alive
        /\ (last.op = "setAlive" /\ HeldCell.color # Null) =>
               ~last.threw /\ HeldCell.alive

\* C6 witness: a setAlive() call has failed on a colourless cell.
C6_Witness ==
    /\ last.op = "setAlive"
    /\ last.threw
    /\ HeldCell.color = Null
    /\ ~HeldCell.alive

\* C7 as stated: a cell that is not alive has no colour.
C7_DeadImpliesNoColor ==
    held # NoCell => (~HeldCell.alive => HeldCell.color = Null)

\* C7 amended: a cell that is not alive has no colour right after its
\* construction and after setDead(); a dead cell carries a colour only
\* after setColor() calls, until setAlive() or setDead() is called.
C7_DeadColorOnlyAfterSetColor ==
    held # NoCell =>
        /\ last.op \in {"Cell", "setDead"} =>
               ~HeldCell.alive /\ HeldCell.color = Null
        /\ (~HeldCell.alive /\ HeldCell.color # Null) => last.op = "setColor"

\* C7 witness: setDead() has left a cell dead and colourless.
C7_Witness ==
    /\ last.op = "setDead"
    /\ held # NoCell
    /\ ~HeldCell.alive
    /\ HeldCell.color = Null

---------------------------------------------------------------------------
(* Claims about Coordinates *)

\* C8 as stated: the constructor fails for a negative x or y, so no
\* Coordinates object has a negative component.
C8_NoNegativeCoordinates ==
    /\ \A i \in 1..Len(coords) : coords[i].x >= 0 /\ coords[i].y >= 0
    /\ (last.op = "Coordinates" /\ (last.args[1].n < 0 \/ last.args[2].n < 0)) =>
           last.threw

\* C8 amended: the constructor fails exactly when x or y is not an integer;
\* negative integers are accepted, and addOffsets returns the sums whatever
\* their sign.
C8_FailsIffNotInteger ==
    /\ last.op = "Coordinates" =>
           /\ last.threw <=> ~(IsInteger(last.args[1]) /\ IsInteger(last.args[2]))
           /\ ~last.threw => coords = <<[x |-> last.args[1].n, y |-> last.args[2].n]>>
    /\ last.op = "addOffsets" =>
           /\ ~last.threw
           /\ Len(coords) = Len(last.args[2])
           /\ \A i \in 1..Len(coords) :
                  /\ coords[i].x = last.args[1].x + last.args[2][i][1]
                  /\ coords[i].y = last.args[1].y + last.args[2][i][2]

\* C8 witness: the constructor has accepted a negative integer.
C8_Witness ==
    /\ last.op = "Coordinates"
    /\ ~last.threw
    /\ coords[1].x < 0

---------------------------------------------------------------------------
(* SpecGrid: a caller of getCell and setCell that also calls the methods   *)
(* of the cells it holds: cells it constructed and cells getCell returned. *)

\* The positions of the grid.
Positions == {[x |-> x, y |-> y] : x \in 0..maxX, y \in 0..maxY}

\* Coordinates a caller of the Grid passes: the positions and one position
\* beyond each of the four edges.
GridCoordinatesInputs ==
    Positions \cup {[x |-> -1, y |-> 0], [x |-> maxX + 1, y |-> 0],
                    [x |-> 0, y |-> -1], [x |-> 0, y |-> maxY + 1]}

GridColorInputs ==
    { <<Integer(255), Integer(0), Integer(0)>>,
      <<Integer(0), Integer(0), Integer(255)>> }

InitGrid == GridNew(GridMaxX, 1)

NextGrid ==
    \/ \E c \in GridCoordinatesInputs : Counted /\ GetCell(c)
    \/ Counted /\ SetCell
    \/ \E c \in GridCoordinatesInputs : Counted /\ NewCell(c)
    \/ \E newColor \in GridColorInputs : Counted /\ SetColor(newColor)
    \/ Counted /\ SetAlive
    \/ Counted /\ SetDead

SpecGrid == InitGrid /\ [][NextGrid]_vars

\* What a reader of position p sees: <<alive, colour>>; a position never
\* touched reads as a dead cell without colour.
StateAt(m, p) ==
    IF MapHas(m, CoordinatesToString(p))
    THEN <<MapGet(m, CoordinatesToString(p)).alive,
           MapGet(m, CoordinatesToString(p)).color>>
    ELSE <<FALSE, Null>>

---------------------------------------------------------------------------
(* Claims about getCell and setCell *)

\* C9: getCell on an in-bounds coordinate that was never written returns a
\* dead colourless cell; on a coordinate that has a cell it returns that
\* stored cell and replaces nothing, so that two getCell calls in a row
\* return the same cell in the same state; and materialising a cell changes
\* the alive/colour state of no coordinate.
C9_GetCellReadsWithoutChange ==
    (last.op = "getCell" /\ ~last.threw) =>
        LET c == last.args[1]
            key == CoordinatesToString(c) IN
        /\ held = GridCell(key)
        /\ MapHas(grid, key)
        /\ ~MapHas(before, key) =>
               /\ MapGet(grid, key) = CellNew(c)
               /\ grid = Append(before, [key |-> key, cell |-> CellNew(c)])
        /\ MapHas(before, key) => grid = before
        /\ \A p \in Positions : StateAt(grid, p) = StateAt(before, p)

\* C9 witness: getCell has returned a stored live cell, next to another
\* stored cell.
C9_Witness ==
    /\ last.op = "getCell"
    /\ ~last.threw
    /\ grid = before
    /\ HeldCell.alive
    /\ Len(grid) >= 2

\* C10: setCell with in-bounds coordinates replaces the slot whatever it
\* held: afterwards the slot holds exactly the given cell, and every other
\* coordinate is unchanged.
C10_SetCellOverwrites ==
    (last.op = "setCell" /\ ~last.threw) =>
        LET cell == last.args[1]
            key == CoordinatesToString(cell.coordinates) IN
        /\ held = GridCell(key)
        /\ MapHas(grid, key)
        /\ MapGet(grid, key) = cell
        /\ StateAt(grid, cell.coordinates) = <<cell.alive, cell.color>>
        /\ \A p \in Positions \ {cell.coordinates} :
               StateAt(grid, p) = StateAt(before, p)
        /\ \A i \in 1..Len(before) : before[i].key # key => grid[i] = before[i]

\* C10 witness: setCell has replaced a live cell by a dead colourless one.
C10_Witness ==
    /\ last.op = "setCell"
    /\ ~last.threw
    /\ StateAt(before, last.args[1].coordinates)[1]
    /\ ~last.args[1].alive
    /\ last.args[1].color = Null

---------------------------------------------------------------------------
(* SpecTick: tick() from every set of live cells of a small grid.  The     *)
(* initial grid is what a sequence of setCell calls with live cells        *)
(* leaves; further ticks run on the grids that ticks leave, which hold     *)
(* dead cells too and cells in other orders.                               *)

\* The live cell a caller stores at position p in colouring `scheme`.
LiveCell(p, scheme) ==
    [coordinates |-> p,
     alive       |-> TRUE,
     color       |-> CASE scheme = "red" -> Red
                       [] scheme = "blue" -> Blue
                       [] OTHER -> IF (p.x + p.y) % 2 = 0 THEN Red ELSE Blue]

\* The Map after setCell of a live cell at each position of `order` in S.
RECURSIVE Populated(_, _, _)
Populated(order, S, scheme) ==
    IF order = <<>> THEN <<>>
    ELSE (IF Head(order) \in S
          THEN <<[key  |-> CoordinatesToString(Head(order)),
                  cell |-> LiveCell(Head(order), scheme)]>>
          ELSE <<>>) \o Populated(Tail(order), S, scheme)

Schemes == {"red", "blue", "mixed"}

InitTick ==
    /\ maxX = TickMaxX
    /\ maxY = 2
    /\ \E S \in SUBSET Positions, scheme \in Schemes :
            grid = Populated(RowMajor, S, scheme)
    /\ held = NoCell
    /\ coords = <<>>
    /\ last = Call("setCell", <<>>, FALSE)
    /\ before = <<>>
    /\ placed = NoPattern
    /\ calls = 0
    /\ returned = Null
    /\ loop = Idle
    /\ players = <<>>
    /\ webSockets = <<>>

NextTick == calls < MaxTicks /\ Tick /\ calls' = calls + 1

SpecTick == InitTick /\ [][NextTick]_vars

---------------------------------------------------------------------------
(* Claims about tick() *)

Abs(n) == IF n < 0 THEN -n ELSE n

\* Whether the cell at position p reads alive in Map m.
AliveAt(m, p) == StateAt(m, p)[1]

\* The positions of the grid that are Moore neighbours of p.
MooreNeighbors(p) ==
    {q \in Positions : q # p /\ Abs(q.x - p.x) <= 1 /\ Abs(q.y - p.y) <= 1}

LiveMooreNeighbors(m, p) == {q \in MooreNeighbors(p) : AliveAt(m, q)}

\* The classical synchronous rule for position p, read on Map m.
LifeRule(m, p) ==
    IF AliveAt(m, p)
    THEN Cardinality(LiveMooreNeighbors(m, p)) \in {2, 3}
    ELSE Cardinality(LiveMooreNeighbors(m, p)) = 3

LiveSet(m) == {p \in Positions : AliveAt(m, p)}

\* C1: after tick() a cell is alive if and only if, before the tick, it was
\* alive with 2 or 3 live Moore neighbours or dead with exactly 3 (positions
\* outside the bounds count as dead); an all-dead grid stays all-dead.
C1_TickIsLifeStep ==
    last.op = "tick" =>
        /\ \A p \in Positions : AliveAt(grid, p) <=> LifeRule(before, p)
        /\ LiveSet(before) = {} => LiveSet(grid) = {}

\* C1 witness: one tick in which a cell died of overcrowding, a cell died
\* of isolation, a cell survived and a cell was born.
C1_Witness ==
    /\ last.op = "tick"
    /\ \E p \in LiveSet(before) \ LiveSet(grid) :
           Cardinality(LiveMooreNeighbors(before, p)) > 3
    /\ \E p \in LiveSet(before) \ LiveSet(grid) :
           Cardinality(LiveMooreNeighbors(before, p)) < 2
    /\ LiveSet(before) \cap LiveSet(grid) # {}
    /\ LiveSet(grid) \ LiveSet(before) # {}

---------------------------------------------------------------------------
(* SpecPattern: one tryGenerate* call on a new, all-dead grid, then ticks. *)

InitPattern == GridNew(PatternMaxX, PatternMaxY)

NextPattern ==
    \/ \E color \in GridColorInputs :
           last.op = "Grid" /\ TryGenerateBlock(color) /\ Uncounted
    \/ \E color \in GridColorInputs :
           last.op = "Grid" /\ TryGenerateBlinker(color) /\ Uncounted
    \/ \E color \in GridColorInputs :
           last.op = "Grid" /\ TryGenerateGlider(color) /\ Uncounted
    \/ /\ placed # NoPattern
       /\ calls < MaxPatternTicks
       /\ Tick
       /\ calls' = calls + 1

SpecPattern == InitPattern /\ [][NextPattern]_vars

---------------------------------------------------------------------------
(* Claims about the patterns *)

\* The colour a cell shows after setColor(color).
Stored(color) == [i \in 1..3 |-> color[i].n]

\* The middle of the 3 by 3 square that the cells of P span.
Middle(P) ==
    [x |-> (CHOOSE x \in {p.x : p \in P} : \A p \in P : x <= p.x) + 1,
     y |-> (CHOOSE y \in {p.y : p \in P} : \A p \in P : y <= p.y) + 1]

Horizontal(c) == {[x |-> c.x + d, y |-> c.y] : d \in -1..1}

Vertical(c) == {[x |-> c.x, y |-> c.y + d] : d \in -1..1}

\* The middle cell of a blinker.
BlinkerCenter(P) ==
    CHOOSE c \in P : \A q \in P : Abs(q.x - c.x) <= 1 /\ Abs(q.y - c.y) <= 1

Translated(P, dx, dy) == {[x |-> p.x + dx, y |-> p.y + dy] : p \in P}

\* C2: the 2x2 block that tryGenerateBlock writes on an all-dead grid is
\* unchanged by tick(): after any number of ticks the same four cells are
\* alive with the same colour and no other cell is alive.  (From the second
\* tick on, a tick leaves the whole Map as it was.)
C2_BlockIsStillLife ==
    (placed.pattern = "block" /\ placed.cells # {}) =>
        /\ LiveSet(grid) = placed.cells
        /\ Cardinality(placed.cells) = 4
        /\ \A p \in placed.cells : StateAt(grid, p) = <<TRUE, Stored(placed.color)>>
        /\ (last.op = "tick" /\ calls >= 2) => grid = before

\* C2 witness: a block after two ticks.
C2_Witness ==
    /\ placed.pattern = "block"
    /\ last.op = "tick"
    /\ calls = 2
    /\ LiveSet(grid) = placed.cells
    /\ Cardinality(LiveSet(grid)) = 4

\* C3: on an otherwise all-dead grid, either blinker that tryGenerateBlinker
\* writes (horizontal or vertical) is the other one through the same centre
\* after an odd number of ticks and the original one after an even number.
C3_BlinkerOscillates ==
    (placed.pattern = "blinker" /\ placed.cells # {}) =>
        LET c == BlinkerCenter(placed.cells) IN
        /\ placed.cells \in {Horizontal(c), Vertical(c)}
        /\ calls % 2 = 0 => LiveSet(grid) = placed.cells
        /\ calls % 2 = 1 =>
               LiveSet(grid) = IF placed.cells = Horizontal(c)
                               THEN Vertical(c) ELSE Horizontal(c)

\* C3 witness: a horizontal blinker has become the vertical one after one
\* tick.
C3_Witness ==
    /\ placed.pattern = "blinker"
    /\ calls = 1
    /\ placed.cells = Horizontal(BlinkerCenter(placed.cells))
    /\ LiveSet(grid) = Vertical(BlinkerCenter(placed.cells))

\* C4: for each glider variation that tryGenerateGlider writes around a
\* centre (x, y) with x + 2 <= maxX and y + 2 <= maxY on an otherwise
\* all-dead grid, the set of live cells after exactly 4 ticks is the written
\* set translated by (+1, +1).
C4_GliderMovesDiagonally ==
    (/\ placed.pattern = "glider"
     /\ placed.cells # {}
     /\ Middle(placed.cells).x + 2 <= maxX
     /\ Middle(placed.cells).y + 2 <= maxY
     /\ calls = 4) =>
        LiveSet(grid) = Translated(placed.cells, 1, 1)

\* C4 witness: a glider with room to move, four ticks after it was written.
C4_Witness ==
    /\ placed.pattern = "glider"
    /\ Cardinality(placed.cells) = 5
    /\ Middle(placed.cells).x + 2 <= maxX
    /\ Middle(placed.cells).y + 2 <= maxY
    /\ calls = 4
    /\ Cardinality(LiveSet(grid)) = 5

---------------------------------------------------------------------------
(* Claims about the bounds assertions of getCell and setCell *)

\* C11: getCell and setCell with a coordinate outside 0 <= x <= maxX,
\* 0 <= y <= maxY fail before touching storage: the call throws, the Map is
\* as it was, and so are the cell passed and the caller's reference; with a
\* coordinate inside the bounds the calls do not fail.
C11_OutOfBoundsFailsUntouched ==
    /\ last.op = "getCell" =>
           /\ last.threw <=> last.args[1] \notin Positions
           /\ last.threw => grid = before
    /\ last.op = "setCell" =>
           /\ last.threw <=> last.args[1].coordinates \notin Positions
           /\ last.threw =>
                  /\ grid = before
                  /\ held.owner = "caller"
                  /\ HeldCell = last.args[1]

\* C11 witness: setCell of a live cell beyond the right edge has failed on a
\* grid that stores a cell.
C11_Witness ==
    /\ last.op = "setCell"
    /\ last.threw
    /\ last.args[1].coordinates.x = maxX + 1
    /\ last.args[1].alive
    /\ Len(grid) >= 1
    /\ grid = before

---------------------------------------------------------------------------
(* SpecNeighbors: a caller that asks for the neighbours of cells it         *)
(* constructed and of cells getCell returned, on a grid of 0..NeighborsMaxX *)
(* by 0..2.                                                                 *)

NeighborsMaxX == 2

\* Number of calls the caller makes in SpecNeighbors.
MaxNeighborsCalls == 3

\* grid.neighbors(cell) with the cell the caller holds; the caller keeps the
\* returned array (the cells, named by their keys).
Neighbors ==
    /\ held # NoCell
    /\ LET r == neighbors(grid, HeldCell) IN
       /\ grid' = r.grid
       /\ returned' = r.cells
       /\ last' = Call("neighbors", <<HeldCell>>, r.threw)
    /\ before' = grid
    /\ UNCHANGED <<loop, players, webSockets, placed, maxX, maxY, held, coords>>

InitNeighbors == GridNew(NeighborsMaxX, 2)

NextNeighbors ==
    \/ \E c \in GridCoordinatesInputs :
           calls < MaxNeighborsCalls /\ GetCell(c) /\ calls' = calls + 1
    \/ \E c \in GridCoordinatesInputs :
           calls < MaxNeighborsCalls /\ NewCell(c) /\ calls' = calls + 1
    \/ calls < MaxNeighborsCalls /\ Neighbors /\ calls' = calls + 1

SpecNeighbors == InitNeighbors /\ [][NextNeighbors]_vars

\* The coordinates of the cells of the returned array.
ReturnedPositions ==
    {MapGet(grid, returned[i]).coordinates : i \in 1..Len(returned)}

\* C12: for a cell inside the bounds, neighbors(cell) does not fail and
\* returns exactly the cells at the Moore neighbours of the cell that are
\* inside the bounds: not the cell itself, no position outside, none twice;
\* 3 cells at a corner, 5 on an edge, 8 in the interior.  Materialising the
\* neighbours changes the alive/colour state of no position.
C12_NeighborsAreMooreClipped ==
    (last.op = "neighbors" /\ last.args[1].coordinates \in Positions) =>
        LET p == last.args[1].coordinates
            onX == p.x \in {0, maxX}
            onY == p.y \in {0, maxY} IN
        /\ ~last.threw
        /\ \A i \in 1..Len(returned) : MapHas(grid, returned[i])
        /\ ReturnedPositions = MooreNeighbors(p)
        /\ p \notin ReturnedPositions
        /\ ReturnedPositions \subseteq Positions
        /\ Len(returned) = Cardinality(ReturnedPositions)
        /\ Len(returned) = IF onX /\ onY THEN 3 ELSE IF onX \/ onY THEN 5 ELSE 8
        /\ \A q \in Positions : StateAt(grid, q) = StateAt(before, q)

\* C12 witness: the neighbours of the corner cell at (maxX, maxY), one of
\* which was stored before the call.
C12_Witness ==
    /\ last.op = "neighbors"
    /\ ~last.threw
    /\ last.args[1].coordinates = [x |-> maxX, y |-> maxY]
    /\ Len(returned) = 3
    /\ Len(before) >= 1
    /\ Len(grid) > Len(before)

---------------------------------------------------------------------------
(* SpecSerialize: serialize() after sequences of the other operations, on  *)
(* grids of 0..1 by 0..1 that start with any set of live cells.            *)

\* Number of calls made in SpecSerialize.
MaxSerializeCalls == 3

\* The wall-clock times read by serialize().
ClockInputs == { <<0, 0, 0>>, <<9, 5, 7>>, <<23, 59, 59>> }

\* grid.serialize(); the caller keeps the returned string.
Serialize(now) ==
    /\ returned' = serialize(grid, now)
    /\ last' = Call("serialize", <<now>>, FALSE)
    /\ before' = grid
    /\ UNCHANGED <<loop, players, webSockets, placed, maxX, maxY, grid, held, coords>>

InitSerialize ==
    /\ maxX = 1
    /\ maxY = 1
    /\ \E S \in SUBSET Positions, scheme \in Schemes :
            grid = Populated(RowMajor, S, scheme)
    /\ held = NoCell
    /\ coords = <<>>
    /\ last = Call("setCell", <<>>, FALSE)
    /\ before = <<>>
    /\ placed = NoPattern
    /\ calls = 0
    /\ returned = Null
    /\ loop = Idle
    /\ players = <<>>
    /\ webSockets = <<>>

SerializeCounted == calls < MaxSerializeCalls /\ calls' = calls + 1

NextSerialize ==
    \/ \E c \in Positions : SerializeCounted /\ GetCell(c)
    \/ \E c \in Positions : SerializeCounted /\ NewCell(c)
    \/ SerializeCounted /\ SetCell
    \/ \E newColor \in GridColorInputs : SerializeCounted /\ SetColor(newColor)
    \/ SerializeCounted /\ SetAlive
    \/ SerializeCounted /\ SetDead
    \/ SerializeCounted /\ Tick
    \/ \E color \in GridColorInputs : SerializeCounted /\ TryGenerateBlock(color)
    \/ \E now \in ClockInputs : SerializeCounted /\ Serialize(now)

SpecSerialize == InitSerialize /\ [][NextSerialize]_vars

\* The segments of the returned string after the timestamp.
Segments == Tail(Split(returned, "|"))

SegmentFields(i) == Split(Segments[i], ",")

SegmentPosition(i) ==
    [x |-> ParseInt(SegmentFields(i)[1]).n, y |-> ParseInt(SegmentFields(i)[2]).n]

SegmentColor(i) == [j \in 1..3 |-> ParseInt(SegmentFields(i)[j + 3 - 1]).n]

\* C13: after any sequence of operations serialize() returns the six digits
\* of the time of day followed by exactly one x,y,r,g,b segment for each
\* cell that is alive, with that cell's colour: no dead cell, no position
\* twice, as many segments as live cells; and the timestamp alone when no
\* cell is alive.  The grid is not changed by the call.
C13_SerializeListsLiveCells ==
    last.op = "serialize" =>
        LET stamp == Split(returned, "|")[1] IN
        /\ grid = before
        /\ Len(stamp) = 6
        /\ \A i \in 1..6 : IsDigit(stamp[i])
        /\ stamp = Pad2(last.args[1][1]) \o Pad2(last.args[1][2]) \o Pad2(last.args[1][3])
        /\ Len(Segments) = Cardinality(LiveSet(grid))
        /\ \A i \in 1..Len(Segments) :
               /\ Len(SegmentFields(i)) = 5
               /\ \A j \in 1..5 :
                      /\ IsInteger(ParseInt(SegmentFields(i)[j]))
                      /\ NumberToString(ParseInt(SegmentFields(i)[j]).n)
                             = SegmentFields(i)[j]
               /\ StateAt(grid, SegmentPosition(i)) = <<TRUE, SegmentColor(i)>>
        /\ {SegmentPosition(i) : i \in 1..Len(Segments)} = LiveSet(grid)
        /\ LiveSet(grid) = {} => returned = stamp

\* C13 witness: serialize() on a grid that stores live cells of two colours
\* and a dead cell that has a colour.
C13_Witness ==
    /\ last.op = "serialize"
    /\ Len(Segments) >= 2
    /\ \E i, j \in 1..Len(Segments) : SegmentColor(i) # SegmentColor(j)
    /\ \E i \in 1..Len(grid) : ~grid[i].cell.alive /\ grid[i].cell.color # Null

---------------------------------------------------------------------------
(* SpecPlacement: one tryGenerate* call on grids of 0..PlacementMaxX by    *)
(* 0..2 that start with any set of live cells, from all dead to all alive, *)
(* and on the grids that one tick makes of them.                           *)

PlacementMaxX == 2

InitPlacement ==
    /\ maxX = PlacementMaxX
    /\ maxY = 2
    /\ \E S \in SUBSET Positions : grid = Populated(RowMajor, S, "mixed")
    /\ held = NoCell
    /\ coords = <<>>
    /\ last = Call("setCell", <<>>, FALSE)
    /\ before = <<>>
    /\ placed = NoPattern
    /\ calls = 0
    /\ returned = Null
    /\ loop = Idle
    /\ players = <<>>
    /\ webSockets = <<>>

NextPlacement ==
    \/ \E color \in GridColorInputs :
           placed = NoPattern /\ TryGenerateBlock(color) /\ Uncounted
    \/ \E color \in GridColorInputs :
           placed = NoPattern /\ TryGenerateBlinker(color) /\ Uncounted
    \/ \E color \in GridColorInputs :
           placed = NoPattern /\ TryGenerateGlider(color) /\ Uncounted
    \/ last.op = "setCell" /\ Tick /\ Uncounted

SpecPlacement == InitPlacement /\ [][NextPlacement]_vars

---------------------------------------------------------------------------
(* Claims about the placement of patterns *)

Generators == {"tryGenerateBlock", "tryGenerateBlinker", "tryGenerateGlider"}

\* The variations of the pattern that the last call places.
LastVariations ==
    CASE last.op = "tryGenerateBlock" -> BlockVariations
      [] last.op = "tryGenerateBlinker" -> BlinkerVariations
      [] OTHER -> GliderVariations

\* The positions that a variation covers around centre c.
Cover(c, variation) ==
    {[x |-> c.x + variation[i][1], y |-> c.y + variation[i][2]] :
        i \in 1..Len(variation)}

\* The positions whose alive/colour state the last call changed.
Changed == {p \in Positions : StateAt(grid, p) # StateAt(before, p)}

\* C14: tryGenerateBlock(color) on an all-dead grid always succeeds:
\* afterwards exactly 4 cells are alive, they form a 2x2 block inside the
\* bounds, and each carries the given colour.
C14_BlockOnAllDeadGrid ==
    (last.op = "tryGenerateBlock" /\ LiveSet(before) = {}) =>
        /\ ~last.threw
        /\ Cardinality(LiveSet(grid)) = 4
        /\ \E c \in Positions :
               /\ LiveSet(grid) = Cover(c, BlockVariations[1])
               /\ LiveSet(grid) = {p \in Positions : p.x \in {c.x, c.x + 1}
                                                     /\ p.y \in {c.y, c.y + 1}}
        /\ \A p \in LiveSet(grid) :
               StateAt(grid, p) = <<TRUE, Stored(last.args[1])>>

\* C14 witness: a block written on an all-dead grid that stores cells that
\* died, its top left cell in the middle of the grid.
C14_Witness ==
    /\ last.op = "tryGenerateBlock"
    /\ LiveSet(before) = {}
    /\ Len(before) >= 1
    /\ LiveSet(grid) = Cover([x |-> 1, y |-> 1], BlockVariations[1])

\* C15: the cells a tryGenerate* call changes are either none or exactly
\* the cells of one variation of its pattern around one centre, all of them
\* inside the bounds and dead before the call and alive with the given
\* colour after it; every cell that was alive before the call keeps its
\* alive flag and colour, so on a fully alive grid nothing changes.
C15_NoFalsePlacement ==
    last.op \in Generators =>
        /\ ~last.threw
        /\ \/ Changed = {}
           \/ \E c \in Positions, v \in 1..Len(LastVariations) :
                  LET P == Cover(c, LastVariations[v]) IN
                  /\ Changed = P
                  /\ P \subseteq Positions
                  /\ \A p \in P :
                         /\ ~AliveAt(before, p)
                         /\ StateAt(grid, p) = <<TRUE, Stored(last.args[1])>>
        /\ \A p \in LiveSet(before) : StateAt(grid, p) = StateAt(before, p)
        /\ LiveSet(before) = Positions => Changed = {}

\* C15 witness: a blinker written between live cells of the other colour.
C15_Witness ==
    /\ last.op = "tryGenerateBlinker"
    /\ Cardinality(Changed) = 3
    /\ Cardinality(LiveSet(before)) >= 3
    /\ \A p \in LiveSet(before) : StateAt(before, p)[2] # Stored(last.args[1])

\* Whether some variation of the last call's pattern can be positioned
\* inside the bounds on cells that were all dead before the call.
Fits ==
    \E x \in -1..(maxX + 1), y \in -1..(maxY + 1), v \in 1..Len(LastVariations) :
        LET P == Cover([x |-> x, y |-> y], LastVariations[v]) IN
        P \subseteq Positions /\ \A p \in P : ~AliveAt(before, p)

\* Whether the last call's filter on the dead cells lets position c through.
CenterAllowed(c) ==
    IF last.op = "tryGenerateBlock" THEN blockCenter(c) ELSE innerCenter(c)

\* Whether some cell that was dead before the call and passes the call's
\* filter has a variation around it of cells that were all dead.
CandidateFits ==
    \E c \in Positions, v \in 1..Len(LastVariations) :
        /\ ~AliveAt(before, c)
        /\ CenterAllowed(c)
        /\ \A p \in Cover(c, LastVariations[v]) : ~AliveAt(before, p)

\* C16 as stated: a tryGenerate* call places a pattern whenever some
\* variation can be positioned inside the bounds on dead cells only, and is
\* a no-op only when no such position exists.
C16_NoFalseNegative ==
    last.op \in Generators => (Fits <=> Changed # {})

\* C16 amended: a tryGenerate* call places a pattern whenever some dead cell
\* that passes the call's filter on centres (block: x < maxX and y < maxY;
\* blinker and glider: 0 < x < maxX and 0 < y < maxY) has a variation around
\* it whose cells are all dead, and is a no-op only when there is no such
\* cell.
C16_PlacesIfCandidateFits ==
    last.op \in Generators =>
        /\ ~last.threw
        /\ CandidateFits <=> Changed # {}
        /\ CandidateFits => Fits

\* C16 witness: a block was written although a dead candidate without room
\* for a block could have been drawn first.
C16_Witness ==
    /\ last.op = "tryGenerateBlock"
    /\ Changed # {}
    /\ \E c \in Positions :
           /\ blockCenter(c)
           /\ ~AliveAt(before, c)
           /\ \E p \in Cover(c, BlockVariations[1]) : AliveAt(before, p)

---------------------------------------------------------------------------
(* SpecLoops: one tick() or tryGenerate* call taken one pass of its loop   *)
(* at a time, on grids of 0..LoopsMaxX by 0..2 that start with any set of  *)
(* live cells.  `loop` holds the locals of the call under way and `grid`   *)
(* the Map as the call has left it so far.                                 *)

LoopsMaxX == 2

\* tick(): the locals before the first pass of the while loop.
TickBegin ==
    /\ loop = Idle
    /\ loop' = [op |-> "tick", t |-> tickStart(grid)]
    /\ before' = grid
    /\ UNCHANGED <<returned, players, webSockets, placed, maxX, maxY, grid, held, coords,
                   last, calls>>

\* tick(): one pass of the while loop.
TickPass ==
    /\ loop.op = "tick"
    /\ loop.t.cellsToCheck # <<>>
    /\ loop' = [op |-> "tick", t |-> tickCheck(loop.t)]
    /\ grid' = loop'.t.grid
    /\ UNCHANGED <<returned, players, webSockets, placed, maxX, maxY, held, coords,
                   last, before, calls>>

\* tick(): the loop has ended; the cells listed in cellsToSwitch flip.
TickEnd ==
    /\ loop.op = "tick"
    /\ loop.t.cellsToCheck = <<>>
    /\ grid' = tickSwitch(loop.t.grid, loop.t.cellsToSwitch)
    /\ loop' = Idle
    /\ last' = Call("tick", <<>>, FALSE)
    /\ UNCHANGED <<returned, players, webSockets, placed, maxX, maxY, held, coords,
                   before, calls>>

\* The variations and the filter on the dead cells of each tryGenerate*.
PatternVariations(op) ==
    CASE op = "tryGenerateBlock" -> BlockVariations
      [] op = "tryGenerateBlinker" -> BlinkerVariations
      [] OTHER -> GliderVariations

PatternCenter(op, c) ==
    IF op = "tryGenerateBlock" THEN blockCenter(c) ELSE innerCenter(c)

\* tryGenerate*(color): the dead cells are collected and filtered, and
\* tryInstantiatePattern is entered.
PlaceBegin(op, color) ==
    /\ loop = Idle
    /\ LET dead == getAllDeadCells(grid) IN
       /\ grid' = dead.grid
       /\ loop' = [op         |-> op,
                   color      |-> color,
                   deadCells  |-> SelectSeq(dead.cells,
                                     LAMBDA k : PatternCenter(op,
                                                   MapGet(dead.grid, k).coordinates)),
                   cellsToSet |-> <<>>]
    /\ before' = grid
    /\ UNCHANGED <<returned, players, webSockets, placed, maxX, maxY, held, coords,
                   last, calls>>

\* Whether a tryGenerate* call is under way.
Placing ==
    loop.op \in {"tryGenerateBlock", "tryGenerateBlinker", "tryGenerateGlider"}

\* The indexes that randomPop(deadCells) can draw.
PlaceIndexes == IF Placing THEN 1..Len(loop.deadCells) ELSE {}

\* tryInstantiatePattern: one pass of the while loop, for the candidate that
\* randomPop draws; a valid variation is drawn and ends the loop.  A getCell
\* that throws ends the call.
PlacePass(index) ==
    /\ Placing
    /\ loop.cellsToSet = <<>>
    /\ index \in PlaceIndexes
    /\ LET valid == filterValidVariations(grid, loop.deadCells[index],
                                          PatternVariations(loop.op))
       IN \/ /\ valid.threw
             /\ loop' = Idle
             /\ last' = Call(loop.op, <<loop.color>>, TRUE)
          \/ /\ ~valid.threw
             /\ valid.variations = <<>>
             /\ loop' = [loop EXCEPT !.deadCells = Splice(loop.deadCells, index)]
             /\ last' = last
          \/ /\ ~valid.threw
             /\ \E v \in 1..Len(valid.variations) :
                    loop' = [loop EXCEPT !.deadCells = Splice(loop.deadCells, index),
                                         !.cellsToSet = valid.variations[v]]
             /\ last' = last
    /\ UNCHANGED <<returned, players, webSockets, placed, maxX, maxY, grid, held, coords,
                   before, calls>>

\* tryInstantiatePattern: the loop has ended; the cells of cellsToSet, if
\* any, are coloured and set alive.
PlaceEnd ==
    /\ Placing
    /\ loop.cellsToSet # <<>> \/ loop.deadCells = <<>>
    /\ grid' = setCells(grid, loop.cellsToSet, loop.color).grid
    /\ placed' = [pattern |-> loop.op,
                  cells   |-> {MapGet(grid, loop.cellsToSet[i]).coordinates :
                                  i \in 1..Len(loop.cellsToSet)},
                  color   |-> loop.color]
    /\ last' = Call(loop.op, <<loop.color>>, FALSE)
    /\ loop' = Idle
    /\ UNCHANGED <<returned, players, webSockets, maxX, maxY, held, coords, before, calls>>

InitLoops ==
    /\ maxX = LoopsMaxX
    /\ maxY = 2
    /\ \E S \in SUBSET Positions : grid = Populated(RowMajor, S, "mixed")
    /\ held = NoCell
    /\ coords = <<>>
    /\ last = Call("setCell", <<>>, FALSE)
    /\ before = <<>>
    /\ placed = NoPattern
    /\ calls = 0
    /\ returned = Null
    /\ loop = Idle
    /\ players = <<>>
    /\ webSockets = <<>>

NextLoops ==
    \/ last.op = "setCell" /\ TickBegin
    \/ \E op \in {"tryGenerateBlock", "tryGenerateBlinker", "tryGenerateGlider"} :
           last.op = "setCell" /\ PlaceBegin(op, <<Integer(255), Integer(0), Integer(0)>>)
    \/ TickPass
    \/ TickEnd
    \/ \E index \in PlaceIndexes : PlacePass(index)
    \/ PlaceEnd

SpecLoops == InitLoops /\ [][NextLoops]_vars

---------------------------------------------------------------------------
(* Claims about the loops of tick() and tryInstantiatePattern *)

\* What is left to do for the while loop of tick(): the cells on
\* cellsToCheck, and 8 neighbours for each cell not yet in cellsChecked.
TickMeasure(t) ==
    Len(t.cellsToCheck)
        + 8 * (Cardinality(Positions) - Cardinality(t.cellsChecked))

\* The cell that the next pass of the tick loop pops.
Popped == loop.t.cellsToCheck[Len(loop.t.cellsToCheck)]

\* Every pass of a loop leaves less to do, and the loops end only when
\* their conditions say so.
PassDecreases ==
    /\ (loop.op = "tick" /\ loop'.op = "tick") =>
           /\ TickMeasure(loop'.t) < TickMeasure(loop.t)
           /\ TickMeasure(loop'.t) >= 0
           /\ Len(loop'.t.cellsToCheck) >= Len(loop.t.cellsToCheck) =>
                  /\ Popped \notin loop.t.cellsChecked
                  /\ MapGet(loop'.t.grid, Popped).alive
           /\ LiveSet(grid') = LiveSet(grid)
    /\ (loop.op = "tick" /\ loop' = Idle) => loop.t.cellsToCheck = <<>>
    /\ (Placing /\ loop'.op = loop.op) =>
           /\ Len(loop'.deadCells) = Len(loop.deadCells) - 1
           /\ loop.cellsToSet = <<>>
    /\ (Placing /\ loop' = Idle) =>
           /\ ~last'.threw
           /\ loop.cellsToSet # <<>> \/ loop.deadCells = <<>>

\* C17: on every grid state tick() and each tryGenerate* call terminate.
\* Each pass of the tick loop pops one cell and pushes neighbours only for
\* a live cell that was not checked before, so that the cells on the
\* worklist plus 8 for every cell not yet checked, a number that is never
\* negative, gets smaller with every pass; each pass of the placement loop
\* removes one candidate, and the loop goes on only until a variation is
\* found or no candidate is left.
C17_LoopsTerminate == [][PassDecreases]_vars

\* C17 witness: tick() has returned on the grid whose cells were all alive,
\* where every cell was pushed again by each of its neighbours.
C17_Witness ==
    /\ loop = Idle
    /\ last.op = "tick"
    /\ LiveSet(before) = Positions
    /\ LiveSet(grid) # LiveSet(before)

---------------------------------------------------------------------------
(* The server of src/src/app.js: the registry of players, the WebSocket    *)
(* connections, the handler of their messages and the timer.               *)

\* JSON.stringify of an array of integers.
JsonStringify(array) ==
    <<"[">> \o Join([i \in 1..Len(array) |-> NumberToString(array[i])], <<",">>)
            \o <<"]">>

\* JSON.parse of the text of an array of integers.
JsonParse(string) ==
    LET items == Split(SubSeq(string, 2, Len(string) - 1), ",") IN
    [i \in 1..Len(items) |-> ParseInt(items[i]).n]

PlayersHas(ps, id) == \E i \in 1..Len(ps) : ps[i].id = id

PlayersGet(ps, id) == ps[CHOOSE i \in 1..Len(ps) : ps[i].id = id].color

\* new Set(players.values())
existingColors(ps) == {ps[i].color : i \in 1..Len(ps)}

\* The player IDs that crypto.randomBytes(20) can give.
PlayerIds == {"a1", "b2"}

\* The colours that the three Math.random() draws can give.
ServerPalette == {<<255, 0, 0>>, <<0, 0, 255>>, <<0, 128, 0>>}

\* The IDs on which the first loop of GET / can end.
freshIds(ps) == {id \in PlayerIds : ~PlayersHas(ps, id)}

\* The second loop of GET / without its test on existingColors.
anyColors(ps) == {JsonStringify(color) : color \in ServerPalette}

\* The colours on which the second loop of GET / can end.
freshColors(ps) ==
    {color \in {JsonStringify(c) : c \in ServerPalette} :
        color \notin existingColors(ps)}

\* The message handler without the test that the cell is not alive.
onMessageOverwrite(m, color, msg) ==
    LET command == Split(msg, "|") IN
    IF command[1] = <<"S", "e", "t">> /\ Len(command) >= 2
    THEN LET strings == Split(command[2], ",")
             x == ParseInt(strings[1])
             y == IF Len(strings) >= 2 THEN ParseInt(strings[2]) ELSE NaN
         IN IF /\ IsInteger(x) /\ x.n >= 0 /\ x.n <= maxX
               /\ IsInteger(y) /\ y.n >= 0 /\ y.n <= maxY
            THEN LET coordinates == CoordinatesNew(x, y).value
                     got == getCell(m, coordinates)
                     cell == setAlive(setColor(CellNew(coordinates),
                                 [i \in 1..3 |-> Integer(color[i])]).cell).cell
                 IN {[threw |-> FALSE, grid |-> setCell(got.grid, cell).grid]}
            ELSE {[threw |-> FALSE, grid |-> m]}
    ELSE {[threw |-> command[1] = <<"S", "e", "t">>, grid |-> m]}

\* ws.on("message", ...): the possible results of the handler for message
\* msg of a player with the given colour.  "Set" without a second component
\* calls split on undefined, which throws a TypeError.
onMessage(m, color, msg) ==
    LET command == Split(msg, "|")
        rgb == [i \in 1..Len(color) |-> Integer(color[i])]
    IN
    IF command[1] = <<"S", "e", "t">>
    THEN IF Len(command) < 2 THEN {[threw |-> TRUE, grid |-> m]}
         ELSE
         LET strings == Split(command[2], ",")
             x == ParseInt(strings[1])
             y == IF Len(strings) >= 2 THEN ParseInt(strings[2]) ELSE NaN
             validX == IsInteger(x) /\ x.n >= 0 /\ x.n <= maxX
             validY == IsInteger(y) /\ y.n >= 0 /\ y.n <= maxY
         IN IF validX /\ validY
            THEN LET coordinates == CoordinatesNew(x, y).value
                     got == getCell(m, coordinates)
                 IN IF ~MapGet(got.grid, CoordinatesToString(coordinates)).alive
                    THEN {[threw |-> FALSE,
                           grid  |-> setCell(got.grid,
                                        setAlive(setColor(CellNew(coordinates),
                                                          rgb).cell).cell).grid]}
                    ELSE {[threw |-> FALSE, grid |-> got.grid]}
            ELSE {[threw |-> FALSE, grid |-> m]}
    ELSE IF command[1] = <<"B", "l", "o", "c", "k">>
    THEN {[threw |-> r.threw, grid |-> r.grid] : r \in tryGenerateBlock(m, rgb)}
    ELSE IF command[1] = <<"B", "l", "i", "n", "k", "e", "r">>
    THEN {[threw |-> r.threw, grid |-> r.grid] : r \in tryGenerateBlinker(m, rgb)}
    ELSE IF command[1] = <<"G", "l", "i", "d", "e", "r">>
    THEN {[threw |-> r.threw, grid |-> r.grid] : r \in tryGenerateGlider(m, rgb)}
    ELSE {[threw |-> FALSE, grid |-> m]}

\* An exception that leaves the message handler is not caught anywhere: the
\* process ends.
Crashed == last.op = "message" /\ last.threw

\* app.get("/"): a new player is registered under a fresh ID with a fresh
\* colour.
GetRoot ==
    /\ ~Crashed
    /\ \E id \in freshIds(players), color \in freshColors(players) :
           /\ players' = Append(players, [id |-> id, color |-> color])
           /\ last' = Call("GET /", <<id, color>>, FALSE)
    /\ before' = grid
    /\ UNCHANGED <<returned, loop, webSockets, placed, maxX, maxY, grid, held,
                   coords>>

\* app.ws("/player/:id"): the connection of an unknown ID is closed, that of
\* a player is added to webSockets with the player's colour.
Connect(id) ==
    /\ ~Crashed
    /\ webSockets' =
           IF PlayersHas(players, id)
           THEN Append(webSockets,
                       [color   |-> JsonParse(PlayersGet(players, id)),
                        wsColor |-> JsonStringify(JsonParse(PlayersGet(players, id))),
                        readyState |-> 1])
           ELSE webSockets
    /\ last' = Call("ws", <<id>>, FALSE)
    /\ before' = grid
    /\ UNCHANGED <<returned, loop, players, placed, maxX, maxY, grid, held,
                   coords>>

\* A message arrives on connection i.
Message(i, msg) ==
    /\ ~Crashed
    /\ i \in 1..Len(webSockets)
    /\ \E r \in onMessage(grid, webSockets[i].color, msg) :
           /\ grid' = r.grid
           /\ last' = Call("message", <<webSockets[i].color, msg>>, r.threw)
    /\ before' = grid
    /\ UNCHANGED <<returned, loop, players, webSockets, placed, maxX, maxY,
                   held, coords>>

\* The timer fires: the grid ticks and its serialization is sent on every
\* open connection, after the connection's colour.
TimerFires(now) ==
    /\ ~Crashed
    /\ grid' = tick(grid)
    /\ returned' =
           [i \in 1..Len(webSockets) |->
               IF webSockets[i].readyState = 1
               THEN webSockets[i].wsColor \o <<"|">> \o serialize(tick(grid), now)
               ELSE Null]
    /\ last' = Call("timer", <<now>>, FALSE)
    /\ before' = grid
    /\ UNCHANGED <<loop, players, webSockets, placed, maxX, maxY, held, coords>>

---------------------------------------------------------------------------
(* Claims about what tick() reads and writes, on SpecLoops                 *)

\* The Map m with every field of every cell as it was before the tick: what
\* the tick has written so far is undone, the cells that getCell stored stay
\* as new cells.
PreTick(m) ==
    [i \in 1..Len(m) |->
        [key  |-> m[i].key,
         cell |-> IF MapHas(before, m[i].key) THEN MapGet(before, m[i].key)
                  ELSE CellNew(m[i].cell.coordinates)]]

\* A pass of the tick loop gives what it would give on the pre-tick fields
\* (the same worklist, checked set and flips, and the same fields for the
\* cell it evaluates), and leaves every alive flag as it was; the flips
\* happen when the loop has ended, one for each cell of cellsToSwitch.
ReadsPreTickOnly ==
    /\ (loop.op = "tick" /\ loop'.op = "tick") =>
           LET r == tickCheck([loop.t EXCEPT !.grid = PreTick(loop.t.grid)]) IN
           /\ loop'.t.cellsToCheck = r.cellsToCheck
           /\ loop'.t.cellsToSwitch = r.cellsToSwitch
           /\ loop'.t.cellsChecked = r.cellsChecked
           /\ Popped \notin loop.t.cellsChecked =>
                  MapGet(loop'.t.grid, Popped) = MapGet(r.grid, Popped)
           /\ LiveSet(grid') = LiveSet(before)
    /\ (loop.op = "tick" /\ loop' = Idle) =>
           /\ loop.t.cellsToCheck = <<>>
           /\ LiveSet(grid) = LiveSet(before)
           /\ \A p \in Positions :
                  (AliveAt(grid', p) # AliveAt(before, p))
                      <=> CoordinatesToString(p) \in Range(loop.t.cellsToSwitch)

\* C22: within one tick() no evaluation reads a value written earlier in
\* the same tick.  Every pass of the loop decides as it would on the fields
\* the cells had before the tick (so the colour written to a cell about to
\* be born is read by no other evaluation), no alive flag changes while the
\* worklist is not empty, and the decided flips are applied afterwards.
C22_EvaluationReadsPreTick == [][ReadsPreTickOnly]_vars

\* C22 witness: tick() is under way, a cell about to be born has its colour
\* already, and a neighbour of that cell was evaluated after it and is about
\* to be born too.
C22_Witness ==
    /\ loop.op = "tick"
    /\ \E i, j \in 1..Len(loop.t.cellsToSwitch) :
           LET a == MapGet(grid, loop.t.cellsToSwitch[i])
               b == MapGet(grid, loop.t.cellsToSwitch[j])
           IN /\ i < j
              /\ ~a.alive /\ a.color # Null
              /\ ~b.alive /\ b.color # Null
              /\ b.coordinates \in MooreNeighbors(a.coordinates)

---------------------------------------------------------------------------
(* SpecOrder: tick() on grids whose Map holds the same live cells in       *)
(* different insertion orders.  The first worklist of tick() is the live   *)
(* cells in Map order, so every order of setCell calls gives tick()        *)
(* another order of visits; further ticks run on the Maps that ticks       *)
(* leave.  The grid has the positions 0..2 by 0..1.                        *)

\* Number of ticks in a run of SpecOrder.
MaxOrderTicks == 2

\* The sequences that hold each element of S once.
RECURSIVE Orders(_)
Orders(S) ==
    IF S = {} THEN {<<>>}
    ELSE UNION {{<<p>> \o rest : rest \in Orders(S \ {p})} : p \in S}

InitOrder ==
    /\ maxX = 2
    /\ maxY = 1
    /\ \E S \in SUBSET Positions, scheme \in Schemes :
           \E order \in Orders(S) : grid = Populated(order, S, scheme)
    /\ held = NoCell
    /\ coords = <<>>
    /\ last = Call("setCell", <<>>, FALSE)
    /\ before = <<>>
    /\ placed = NoPattern
    /\ calls = 0
    /\ returned = Null
    /\ loop = Idle
    /\ players = <<>>
    /\ webSockets = <<>>

NextOrder == calls < MaxOrderTicks /\ Tick /\ calls' = calls + 1

SpecOrder == InitOrder /\ [][NextOrder]_vars

---------------------------------------------------------------------------
(* Claims about the order of the visits of tick() *)

\* The live cells of m, with their colours, stored in the order `order`.
RECURSIVE LiveInOrder(_, _)
LiveInOrder(order, m) ==
    IF order = <<>> THEN <<>>
    ELSE (IF AliveAt(m, Head(order))
          THEN <<[key  |-> CoordinatesToString(Head(order)),
                  cell |-> MapGet(m, CoordinatesToString(Head(order)))]>>
          ELSE <<>>) \o LiveInOrder(Tail(order), m)

\* The keys in the order in which the loop of tick() on m checks them for
\* the first time.
RECURSIVE Visits(_)
Visits(t) ==
    IF t.cellsToCheck = <<>> THEN <<>>
    ELSE (IF t.cellsToCheck[Len(t.cellsToCheck)] \in t.cellsChecked THEN <<>>
          ELSE <<t.cellsToCheck[Len(t.cellsToCheck)]>>) \o Visits(tickCheck(t))

\* C23: the grid after tick() (alive flags and colours at every position)
\* does not depend on the order in which tick() takes the cells from its
\* worklist: it is the grid that tick() leaves when the same live cells
\* are stored in row-major order, whatever the order of the Map was; no
\* cell is evaluated twice and no cell is listed twice for a flip.
C23_OrderIndependent ==
    last.op = "tick" =>
        LET t == tickLoop(tickStart(before))
            v == Visits(tickStart(before))
        IN
        /\ \A p \in Positions :
               StateAt(grid, p) = StateAt(tick(LiveInOrder(RowMajor, before)), p)
        /\ \A i, j \in 1..Len(t.cellsToSwitch) :
               i # j => t.cellsToSwitch[i] # t.cellsToSwitch[j]
        /\ \A i, j \in 1..Len(v) : i # j => v[i] # v[j]

\* C23 witness: tick() has run on a Map whose worklist was visited in
\* another order than that of the row-major Map, and a cell was born.
C23_Witness ==
    /\ last.op = "tick"
    /\ Visits(tickStart(before)) # Visits(tickStart(LiveInOrder(RowMajor, before)))
    /\ LiveSet(grid) \ LiveSet(before) # {}

---------------------------------------------------------------------------
(* SpecServer: players register and connect, their messages and the timer  *)
(* interleave in any order.  The grid has the positions 0..ServerMaxX by   *)
(* 0..1 (the program's has 0..9 by 0..9).                                  *)

ServerMaxX == 1

\* Number of messages and timer firings in a run of SpecServer.
MaxServerEvents == 2

\* "Set|x,y" for the coordinates c.
SetCommand(c) ==
    <<"S", "e", "t", "|">> \o NumberToString(c.x) \o <<",">> \o NumberToString(c.y)

\* The commands that the client page sends.
WellFormed ==
    {SetCommand(p) : p \in Positions}
        \cup { <<"B", "l", "o", "c", "k">>,
               <<"B", "l", "i", "n", "k", "e", "r">>,
               <<"G", "l", "i", "d", "e", "r">> }

\* Other texts: empty, an unknown word, "Set" without coordinates, with one
\* coordinate, with coordinates that are not numbers, that are a number
\* followed by a letter, that are negative or out of range.
Malformed ==
    { <<>>,
      <<"a">>,
      <<"S", "e", "t">>,
      <<"S", "e", "t", "|">>,
      <<"S", "e", "t", "|", "1">>,
      <<"S", "e", "t", "|", "a", ",", "0">>,
      <<"S", "e", "t", "|", "1", "a", ",", "0">>,
      <<"S", "e", "t", "|", "0", ",", "N", "a", "N">>,
      SetCommand([x |-> -1, y |-> 0]),
      SetCommand([x |-> 0, y |-> 999]),
      SetCommand([x |-> maxX + 1, y |-> 0]) }

MessageInputs == WellFormed \cup Malformed

InitServer == GridNew(ServerMaxX, 1)

ServerCounted == calls < MaxServerEvents /\ calls' = calls + 1

\* Whether the player with this ID has a connection.
Connected(id) ==
    /\ PlayersHas(players, id)
    /\ \E i \in 1..Len(webSockets) : webSockets[i].wsColor = PlayersGet(players, id)

NextServer ==
    \/ GetRoot /\ Uncounted
    \/ \E id \in PlayerIds \cup {"a"} :
           ~Connected(id) /\ Connect(id) /\ Uncounted
    \/ \E i \in 1..Len(webSockets), msg \in MessageInputs :
           ServerCounted /\ Message(i, msg)
    \/ \E now \in {<<9, 5, 7>>} : ServerCounted /\ TimerFires(now)

SpecServer == InitServer /\ [][NextServer]_vars

---------------------------------------------------------------------------
(* Claims about the server *)

\* The colour of the player whose message was handled last.
Sender == last.args[1]

\* C18: a "Set|x,y" message of any player for a cell that is alive changes
\* nothing: the Map is as it was, so the cell keeps the colour of the player
\* who set it first, whatever Set messages of other players follow before
\* the next tick; a Set for a dead cell makes it alive in the sender's
\* colour and changes no other position.
C18_FirstWriteWins ==
    \A p \in Positions :
        (last.op = "message" /\ last.args[2] = SetCommand(p)) =>
            /\ ~last.threw
            /\ AliveAt(before, p) => grid = before
            /\ ~AliveAt(before, p) => StateAt(grid, p) = <<TRUE, Sender>>
            /\ \A q \in Positions \ {p} : StateAt(grid, q) = StateAt(before, q)

\* C18 witness: a player has sent Set for a cell that is alive in another
\* player's colour.
C18_Witness ==
    \E p \in Positions :
        /\ last.op = "message"
        /\ last.args[2] = SetCommand(p)
        /\ AliveAt(before, p)
        /\ StateAt(before, p)[2] # Sender
        /\ StateAt(grid, p) = StateAt(before, p)

\* C19: a message that is not a well-formed command is ignored: the handler
\* completes without raising and the grid is unchanged.
C19_MalformedIgnored ==
    (last.op = "message" /\ last.args[2] \notin WellFormed) =>
        ~last.threw /\ grid = before

\* C20: after any sequence of GET / requests no two entries of the registry
\* have the same ID and no two have the same colour.
C20_DistinctIdsAndColors ==
    /\ \A i, j \in 1..Len(players) :
           i # j => /\ players[i].id # players[j].id
                    /\ players[i].color # players[j].color
                    /\ JsonParse(players[i].color) # JsonParse(players[j].color)
    /\ \A i \in 1..Len(players) :
           /\ JsonParse(players[i].color) \in ServerPalette
           /\ JsonStringify(JsonParse(players[i].color)) = players[i].color
    /\ last.op = "GET /" =>
           /\ Len(players) >= 1
           /\ players[Len(players)] = [id |-> last.args[1], color |-> last.args[2]]

\* C20 witness: a second player has been registered.
C20_Witness ==
    /\ last.op = "GET /"
    /\ Len(players) = 2

---------------------------------------------------------------------------
(* SpecTimer: the callbacks of the server as the event loop runs them, the *)
(* timer's callback taken one step at a time: each pass of the loop of     *)
(* tick(), the flips, then one ws.send per connection.  Two players are    *)
(* registered and the first is connected; the grid has the positions 0..2  *)
(* by 0..1 and holds what earlier Set commands of the players left.        *)

\* Number of messages and timer firings in a run of SpecTimer.
MaxTimerEvents == 2

\* A callback that could be dispatched while another one is running.
DispatchedAnytime == TRUE

\* The callbacks of src/src/app.js are synchronous functions: the event loop
\* dispatches the next one only when the one that runs has returned.
RunToCompletion == loop = Idle

\* The timer fires: tick() is entered.
TimerBegin ==
    /\ ~Crashed
    /\ loop' = [op |-> "tick", t |-> tickStart(grid)]
    /\ before' = grid
    /\ UNCHANGED <<returned, players, webSockets, placed, maxX, maxY, grid, held, coords,
                   last>>

\* tick() ends: the cells of cellsToSwitch flip; webSockets.forEach starts.
TimerTickEnd ==
    /\ loop.op = "tick"
    /\ loop.t.cellsToCheck = <<>>
    /\ grid' = tickSwitch(loop.t.grid, loop.t.cellsToSwitch)
    /\ loop' = [op |-> "forEach", index |-> 1]
    /\ returned' = <<>>
    /\ UNCHANGED <<players, webSockets, placed, maxX, maxY, held, coords, last,
                   before, calls>>

\* One call of the forEach callback: the serialization of the grid, made at
\* clock time `now`, is sent on the connection if it is open.
TimerSend(now) ==
    /\ loop.op = "forEach"
    /\ loop.index <= Len(webSockets)
    /\ returned' =
           Append(returned,
                  IF webSockets[loop.index].readyState = 1
                  THEN webSockets[loop.index].wsColor \o <<"|">> \o serialize(grid, now)
                  ELSE Null)
    /\ loop' = [loop EXCEPT !.index = @ + 1]
    /\ UNCHANGED <<players, webSockets, placed, maxX, maxY, grid, held, coords,
                   last, before, calls>>

\* The timer's callback returns.
TimerEnd ==
    /\ loop.op = "forEach"
    /\ loop.index > Len(webSockets)
    /\ loop' = Idle
    /\ last' = Call("timer", <<>>, FALSE)
    /\ UNCHANGED <<returned, players, webSockets, placed, maxX, maxY, grid, held,
                   coords, before, calls>>

InitTimer ==
    /\ maxX = 2
    /\ maxY = 1
    /\ \E S \in SUBSET Positions : grid = Populated(RowMajor, S, "mixed")
    /\ held = NoCell
    /\ coords = <<>>
    /\ last = Call("ws", <<"a1">>, FALSE)
    /\ before = <<>>
    /\ placed = NoPattern
    /\ calls = 0
    /\ returned = Null
    /\ loop = Idle
    /\ players = <<[id |-> "a1", color |-> JsonStringify(Red)],
                   [id |-> "b2", color |-> JsonStringify(Blue)]>>
    /\ webSockets = <<[color |-> Red, wsColor |-> JsonStringify(Red), readyState |-> 1]>>

\* The wall-clock time read by serialize() during a broadcast.
TimerClock == {<<9, 5, 7>>}

TimerCounted == calls < MaxTimerEvents /\ calls' = calls + 1

NextTimer ==
    \/ \E id \in PlayerIds :
           RunToCompletion /\ ~Connected(id) /\ Connect(id) /\ Uncounted
    \/ \E i \in 1..Len(webSockets), msg \in WellFormed :
           RunToCompletion /\ TimerCounted /\ Message(i, msg)
    \/ RunToCompletion /\ TimerCounted /\ TimerBegin
    \/ TickPass
    \/ TimerTickEnd
    \/ \E now \in TimerClock : TimerSend(now)
    \/ TimerEnd

SpecTimer == InitTimer /\ [][NextTimer]_vars

---------------------------------------------------------------------------
(* Claims about the timer *)

\* What the timer's callback sends on connection i for a grid m.
Broadcast(i, m) ==
    {webSockets[i].wsColor \o <<"|">> \o serialize(m, now) : now \in TimerClock}

\* C21: every timer firing runs tick() to its end and then broadcasts, and
\* no command is handled in between: while the broadcast is under way and
\* when the callback has returned, the grid is the whole tick of the grid
\* that the commands handled before the firing left, and every message sent
\* is the connection's colour followed by the serialization of that grid;
\* while tick() is under way no cell has changed its alive flag.
C21_TickThenBroadcast ==
    /\ loop.op = "tick" => LiveSet(grid) = LiveSet(before)
    /\ (loop.op = "forEach" \/ (loop = Idle /\ last.op = "timer")) =>
           /\ grid = tick(before)
           /\ Len(returned) <= Len(webSockets)
           /\ \A i \in 1..Len(returned) : returned[i] \in Broadcast(i, tick(before))
    /\ (loop = Idle /\ last.op = "timer") => Len(returned) = Len(webSockets)

\* C21 witness: after a player's command the timer has fired, a cell was
\* born in the tick, and the broadcast reached two connections.
C21_Witness ==
    /\ loop = Idle
    /\ last.op = "timer"
    /\ calls = 2
    /\ Len(returned) = 2
    /\ LiveSet(grid) \ LiveSet(before) # {}

---------------------------------------------------------------------------
(* Claims about the colours of the stored cells, on SpecTimer *)

\* C24: after every completed tick(), tryGenerate* call and server command
\* every cell stored in the grid is alive if and only if it has a colour:
\* no stored dead cell keeps a colour, no stored live cell lacks one.
C24_AliveIffColored ==
    loop = Idle =>
        \A i \in 1..Len(grid) : grid[i].cell.alive <=> grid[i].cell.color # Null

\* C24 witness: after a player's command the timer's tick has completed and
\* a cell was born in it with a blend of its neighbours' colours.
C24_Witness ==
    /\ loop = Idle
    /\ last.op = "timer"
    /\ calls = 2
    /\ \E p \in Positions :
           /\ ~AliveAt(before, p)
           /\ StateAt(grid, p)[1]
           /\ StateAt(grid, p)[2] \notin {Red, Blue}

\* C25: under any interleaving of commands and ticks the colour of a cell
\* never changes while the cell stays alive.  After every command and every
\* tick, a position whose colour differs from the one before the command or
\* tick has been born or has died in it; a cell that was born has a colour
\* and a cell that died has none.
C25_ColourKeptWhileAlive ==
    (loop = Idle /\ last.op \in {"message", "timer"}) =>
        \A p \in Positions :
            LET was == StateAt(before, p)
                now == StateAt(grid, p)
            IN /\ now[2] # was[2] => now[1] # was[1]
               /\ (~was[1] /\ now[1]) => now[2] # Null
               /\ (was[1] /\ ~now[1]) => now[2] = Null

\* C25 witness: a player has sent "Block" for a grid in which a cell of
\* another colour is alive; the block is alive in the player's colour and
\* the other cell has kept its colour.
C25_Witness ==
    /\ loop = Idle
    /\ last.op = "message"
    /\ last.args[2] = <<"B", "l", "o", "c", "k">>
    /\ \E p, q \in Positions :
           /\ AliveAt(before, p)
           /\ StateAt(grid, p) = StateAt(before, p)
           /\ StateAt(grid, p)[2] # Sender
           /\ ~AliveAt(before, q)
           /\ StateAt(grid, q) = <<TRUE, Sender>>

====
